---- MODULE Spec2Model ----
(***************************************************************************)
(* Model of the lam-phuong-api REST backend: the slugged entity handlers   *)
(* and their remote-table repository, the user store and account status    *)
(* machine, signed tokens, and the authentication / role middleware.        *)
(***************************************************************************)
EXTENDS Integers, Sequences, FiniteSets, TLC

VARIABLES
    airtableLoc,   \* remote locations table: sequence of records {id, fields}
    recSeq,        \* number of record ids the remote service has assigned
    locReq,        \* per client: position inside CreateLocation
    resp,          \* the last HTTP exchange: handler, request and response
    users,         \* user store: id -> User
    nextID,        \* next id the user store hands out
    regReq,        \* per client: position inside RegisterHandler
    issued,        \* access tokens handed to clients by Login
    now,           \* wall clock, in token-lifetime units
    repoKind,      \* which location Repository was constructed, if any
    locData,       \* in-memory location store: id -> Location
    locNextID,     \* next id the in-memory location store hands out
    mu,            \* readers-writer lock of the in-memory location store
    locCall,       \* per client: position inside a mirroring-repository call
    airtableUsers  \* remote users table: sequence of records {id, fields}

locVars == <<airtableLoc, recSeq, locReq>>
userVars == <<users, nextID, regReq, issued, now>>
memVars == <<repoKind, locData, locNextID, mu, locCall, airtableUsers>>
vars == <<airtableLoc, recSeq, locReq, resp, users, nextID, regReq, issued, now,
          repoKind, locData, locNextID, mu, locCall, airtableUsers>>

(***************************************************************************)
(* Bounds                                                                  *)
(***************************************************************************)
MaxRecords == 2

\* Largest id the user store hands out.
MaxUsers == 4

\* Number of access tokens the clients keep for later requests.
MaxTokens == 1

\* Lifetime of an access token and the last instant of the clock.
tokenExpiry == 1
MaxTime == 2

\* Two concurrently served requests are enough for every interleaving of one
\* handler with another.
Clients == {"c1", "c2"}

\* Request bodies the clients send to POST /locations (Name is required).
Payloads ==
    { [Name |-> "A b", Slug |-> ""],
      [Name |-> "A b", Slug |-> " A  B "],
      [Name |-> "A b", Slug |-> "a-b-1"] }

\* Path parameters the clients send to DELETE /locations/:slug.
SlugParams == {"", "-", "a-b", "A B-1"}

(***************************************************************************)
(* JSON scalars of the remote wire format                                  *)
(***************************************************************************)
Str(s) == [t |-> "string", v |-> s]

getStringField(fields, key) ==
    IF key \in DOMAIN fields /\ fields[key].t = "string"
    THEN fields[key].v
    ELSE ""

(***************************************************************************)
(* Response envelope                                                       *)
(***************************************************************************)
NoData == [none |-> TRUE]

Success(statusCode, data) ==
    [success |-> TRUE, status |-> statusCode, code |-> "", data |-> data]

Error(statusCode, code) ==
    [success |-> FALSE, status |-> statusCode, code |-> code, data |-> NoData]

ErrCodeValidation == "VALIDATION_ERROR"
ErrCodeUnauthorized == "UNAUTHORIZED"
ErrCodeForbidden == "FORBIDDEN"
ErrCodeNotFound == "NOT_FOUND"
ErrCodeInternal == "INTERNAL_ERROR"
ErrCodeBadRequest == "BAD_REQUEST"
ErrCodeInvalidToken == "INVALID_TOKEN"
ErrCodeExpiredToken == "EXPIRED_TOKEN"
ErrCodeInvalidAuth == "INVALID_AUTH"
ErrCodeDuplicateEmail == "DUPLICATE_EMAIL"

BadRequest == Error(400, ErrCodeBadRequest)
Unauthorized == Error(401, ErrCodeUnauthorized)
Forbidden == Error(403, ErrCodeForbidden)
NotFound == Error(404, ErrCodeNotFound)
InternalError == Error(500, ErrCodeInternal)
ValidationError == Error(400, ErrCodeValidation)
InvalidToken == Error(401, ErrCodeInvalidToken)
ExpiredToken == Error(401, ErrCodeExpiredToken)
InvalidAuth == Error(401, ErrCodeInvalidAuth)
DuplicateEmail == Error(409, ErrCodeDuplicateEmail)

Exchange(handler, req, r) == [handler |-> handler, req |-> req, r |-> r]

(***************************************************************************)
(* slug.Make: lower-case, every character outside [a-z0-9-] becomes "-",   *)
(* runs of "-" collapse to one, leading and trailing "-" are removed.      *)
(***************************************************************************)
CharAt(s, i) == SubSeq(s, i, i)

ToLower(c) ==
    CASE c = "A" -> "a"
      [] c = "B" -> "b"
      [] c = "J" -> "j"
      [] c = "N" -> "n"
      [] c = "O" -> "o"
      [] c = "S" -> "s"
      [] OTHER -> c

SlugChars == {"a", "b", "0", "1", "2", "3", "4", "5", "6", "7", "8", "9", "-"}

SlugCharOf(c) == IF ToLower(c) \in SlugChars THEN ToLower(c) ELSE "-"

RECURSIVE MakeFrom(_, _, _)
MakeFrom(s, i, acc) ==
    IF i > Len(s)
    THEN IF acc # "" /\ CharAt(acc, Len(acc)) = "-"
         THEN SubSeq(acc, 1, Len(acc) - 1)
         ELSE acc
    ELSE LET c == SlugCharOf(CharAt(s, i))
         IN  IF c = "-" /\ (acc = "" \/ CharAt(acc, Len(acc)) = "-")
             THEN MakeFrom(s, i + 1, acc)
             ELSE MakeFrom(s, i + 1, acc \o c)

\* Variant that maps the characters but neither collapses nor trims "-".
RECURSIVE MapChars(_, _)
MapChars(s, i) ==
    IF i > Len(s) THEN "" ELSE SlugCharOf(CharAt(s, i)) \o MapChars(s, i + 1)

Make_noCollapse(s) == MapChars(s, 1)

Make(s) == MakeFrom(s, 1, "")

(***************************************************************************)
(* Remote table service (external): ids are assigned by the service.       *)
(***************************************************************************)
RecordID(n) == "rec" \o ToString(n)

FieldName == "Name"
FieldSlug == "Slug"

ToAirtableFieldsForCreate(l) ==
    [Name |-> Str(l.Name), Slug |-> Str(l.Slug)]

mapAirtableRecord(record) ==
    [ID |-> record.id,
     Name |-> getStringField(record.fields, FieldName),
     Slug |-> getStringField(record.fields, FieldSlug)]

TableSlugs ==
    {getStringField(airtableLoc[i].fields, FieldSlug) : i \in 1..Len(airtableLoc)}

\* AirtableRepository.List: a failed remote call degrades to the empty list.
RepoList(ok) ==
    IF ok
    THEN [i \in 1..Len(airtableLoc) |-> mapAirtableRecord(airtableLoc[i])]
    ELSE <<>>

(***************************************************************************)
(* ensureUniqueSlug                                                        *)
(***************************************************************************)
RECURSIVE NextCandidate(_, _, _)
NextCandidate(baseSlug, existingSlugs, i) ==
    LET candidate == baseSlug \o "-" \o ToString(i)
    IN  IF candidate \notin existingSlugs
        THEN candidate
        ELSE NextCandidate(baseSlug, existingSlugs, i + 1)

DefaultSlug == "location"

\* Variant whose suffix loop starts at 2 instead of 1.
ensureUniqueSlug_from2(listed, slugIn) ==
    LET baseSlug == IF slugIn = "" THEN DefaultSlug ELSE slugIn
        existingSlugs == {listed[i].Slug : i \in DOMAIN listed}
    IN  IF baseSlug \notin existingSlugs
        THEN baseSlug
        ELSE NextCandidate(baseSlug, existingSlugs, 2)

ensureUniqueSlug(listed, slugIn) ==
    LET baseSlug == IF slugIn = "" THEN DefaultSlug ELSE slugIn
        existingSlugs == {listed[i].Slug : i \in DOMAIN listed}
    IN  IF baseSlug \notin existingSlugs
        THEN baseSlug
        ELSE NextCandidate(baseSlug, existingSlugs, 1)

(***************************************************************************)
(* Handler.CreateLocation, in its two repository round trips               *)
(***************************************************************************)
Idle == [pc |-> "idle"]

\* Bind the payload, normalise the slug, list the table, choose the slug.
\* listOk and listed record whether the listing succeeded and which slugs it
\* returned when the check ran.
CreateLocationCheck(c, payload, listOk) ==
    /\ locReq[c].pc = "idle"
    /\ LET locationSlug == IF payload.Slug # ""
                           THEN Make(payload.Slug)
                           ELSE Make(payload.Name)
           list == RepoList(listOk)
           chosen == ensureUniqueSlug(list, locationSlug)
       IN  locReq' = [locReq EXCEPT ![c] =
                 [pc |-> "create",
                  payload |-> payload,
                  listOk |-> listOk,
                  listed |-> {list[i].Slug : i \in DOMAIN list},
                  location |-> [Name |-> payload.Name, Slug |-> chosen]]]
    /\ UNCHANGED <<airtableLoc, recSeq, resp>>
    /\ UNCHANGED userVars
    /\ UNCHANGED memVars

\* Variant in which the store rejects a slug that some record already carries.
RepoCreate_unique(location, createOk) ==
    IF createOk /\ location.Slug \notin TableSlugs
    THEN [ok |-> TRUE,
          table |-> Append(airtableLoc,
                       [id |-> RecordID(recSeq + 1),
                        fields |-> ToAirtableFieldsForCreate(location)]),
          created |-> [ID |-> RecordID(recSeq + 1),
                       Name |-> location.Name, Slug |-> location.Slug]]
    ELSE [ok |-> FALSE, table |-> airtableLoc, created |-> NoData]

\* AirtableRepository.Create: no uniqueness check, the remote assigns the id.
RepoCreate(location, createOk) ==
    IF createOk
    THEN [ok |-> TRUE,
          table |-> Append(airtableLoc,
                       [id |-> RecordID(recSeq + 1),
                        fields |-> ToAirtableFieldsForCreate(location)]),
          created |-> [ID |-> RecordID(recSeq + 1),
                       Name |-> location.Name, Slug |-> location.Slug]]
    ELSE [ok |-> FALSE, table |-> airtableLoc, created |-> NoData]

\* repo.Create and the response.
CreateLocationWrite(c, createOk) ==
    /\ locReq[c].pc = "create"
    /\ createOk => recSeq < MaxRecords
    /\ LET req == locReq[c]
           res == RepoCreate(req.location, createOk)
       IN  /\ airtableLoc' = res.table
           /\ recSeq' = IF res.ok THEN recSeq + 1 ELSE recSeq
           /\ resp' = Exchange("CreateLocation",
                        [payload |-> req.payload, listOk |-> req.listOk,
                         listed |-> req.listed, location |-> req.location,
                         createOk |-> createOk],
                        IF res.ok THEN Success(201, res.created) ELSE InternalError)
    /\ locReq' = [locReq EXCEPT ![c] = Idle]
    /\ UNCHANGED userVars
    /\ UNCHANGED memVars

(***************************************************************************)
(* Handler.DeleteLocationBySlug over AirtableRepository.DeleteBySlug       *)
(***************************************************************************)
RECURSIVE SelectSeq2(_, _)
SelectSeq2(s, keep) ==
    IF s = <<>> THEN <<>>
    ELSE IF Head(s).id \in keep
         THEN <<Head(s)>> \o SelectSeq2(Tail(s), keep)
         ELSE SelectSeq2(Tail(s), keep)

DeleteLocationBySlug(slugParam, listOk, deleteOk) ==
    LET normalizedSlug == Make(slugParam)
        req == [slug |-> slugParam]
        matching == {i \in 1..Len(airtableLoc) :
                        getStringField(airtableLoc[i].fields, FieldSlug) = normalizedSlug}
        ids == {airtableLoc[i].id : i \in matching}
        rest == {airtableLoc[i].id : i \in (1..Len(airtableLoc)) \ matching}
    IN  /\ UNCHANGED <<recSeq, locReq>>
        /\ UNCHANGED userVars
        /\ UNCHANGED memVars
        /\ IF slugParam = ""
           THEN /\ resp' = Exchange("DeleteLocationBySlug", req, BadRequest)
                /\ UNCHANGED airtableLoc
           ELSE IF normalizedSlug = ""
           THEN /\ resp' = Exchange("DeleteLocationBySlug", req, ValidationError)
                /\ UNCHANGED airtableLoc
           ELSE IF ~listOk \/ ids = {} \/ ~deleteOk
           THEN /\ resp' = Exchange("DeleteLocationBySlug", req, NotFound)
                /\ UNCHANGED airtableLoc
           ELSE /\ airtableLoc' = SelectSeq2(airtableLoc, rest)
                /\ resp' = Exchange("DeleteLocationBySlug", req, Success(200, NoData))

(***************************************************************************)
(* Properties of the slugged-entity handlers                               *)
(***************************************************************************)
Suffixed(S, n) == S \o "-" \o ToString(n)

\* The slug a request asks for: the normalised explicit slug, else the
\* normalised name, else the entity default.
Desired(payload) ==
    LET m == Make(IF payload.Slug # "" THEN payload.Slug ELSE payload.Name)
    IN  IF m = "" THEN DefaultSlug ELSE m

SmallestFreeSuffix(req) ==
    LET S == Desired(req.payload)
    IN  S \in req.listed =>
          \E n \in 1..(Cardinality(req.listed) + 1) :
             /\ req.location.Slug = Suffixed(S, n)
             /\ Suffixed(S, n) \notin req.listed
             /\ \A m \in 1..(n - 1) : Suffixed(S, m) \in req.listed

IsWriteBy(c) == locReq[c].pc = "create" /\ locReq'[c].pc = "idle"

\* C1: a create whose desired slug S is among the listed slugs gets S-N with
\* N the smallest positive integer such that S-N is not listed, the created
\* entity carries exactly that slug, and a create leaves every earlier
\* record (and its slug) as it was.
C1_CollisionGetsSmallestFreeSuffix ==
    /\ [](/\ \A c \in Clients : locReq[c].pc = "create" => SmallestFreeSuffix(locReq[c])
          /\ (resp.handler = "CreateLocation" /\ resp.r.success) =>
                /\ SmallestFreeSuffix(resp.req)
                /\ resp.r.data.Slug = resp.req.location.Slug)
    /\ [][\A c \in Clients : IsWriteBy(c) =>
             /\ Len(airtableLoc') >= Len(airtableLoc)
             /\ SubSeq(airtableLoc', 1, Len(airtableLoc)) = airtableLoc]_vars

\* Two creates named "A b" without a slug: the first holds a-b, the second
\* was answered a-b-1.
C1_Witness ==
    /\ resp.handler = "CreateLocation" /\ resp.r.success
    /\ resp.req.payload = [Name |-> "A b", Slug |-> ""]
    /\ resp.req.listed = {"a-b"}
    /\ resp.r.data.Slug = "a-b-1"
    /\ Len(airtableLoc) = 2
    /\ getStringField(airtableLoc[1].fields, FieldSlug) = "a-b"
    /\ getStringField(airtableLoc[2].fields, FieldSlug) = "a-b-1"

\* Letters and digits of a text, lower-cased, in order.
RECURSIVE Alnum(_, _)
Alnum(s, i) ==
    IF i > Len(s) THEN ""
    ELSE LET c == ToLower(CharAt(s, i))
         IN  (IF c \in SlugChars \ {"-"} THEN c ELSE "") \o Alnum(s, i + 1)

IsNormalSlug(s) ==
    /\ s # ""
    /\ \A i \in 1..Len(s) : CharAt(s, i) \in SlugChars
    /\ CharAt(s, 1) # "-" /\ CharAt(s, Len(s)) # "-"
    /\ \A i \in 1..(Len(s) - 1) : ~(CharAt(s, i) = "-" /\ CharAt(s, i + 1) = "-")

ExplicitCreated ==
    /\ resp.handler = "CreateLocation" /\ resp.r.success
    /\ resp.req.payload.Slug # ""

C2_WitnessNormalised ==
    /\ ExplicitCreated
    /\ resp.req.payload.Slug = " A  B "
    /\ resp.r.data.Slug = "a-b"

\* C3: repo.Create never re-checks uniqueness: every write whose remote
\* call succeeds is answered 201 and appends a record carrying the slug
\* chosen at check time, also when a record with that slug was written
\* since the check; the check and the write are separate steps.
C3_WriteDoesNotRecheck ==
    [][\A c \in Clients :
          (IsWriteBy(c) /\ resp'.req.createOk) =>
             /\ resp'.r.success
             /\ Len(airtableLoc') = Len(airtableLoc) + 1
             /\ getStringField(airtableLoc'[Len(airtableLoc')].fields, FieldSlug)
                   = locReq[c].location.Slug]_vars

\* Both requests listed the table successfully without finding the slug,
\* both writes succeeded, and two records carry the same slug.
C3_Witness ==
    /\ resp.handler = "CreateLocation" /\ resp.r.success
    /\ resp.req.listOk /\ resp.req.listed = {}
    /\ Len(airtableLoc) = 2
    /\ getStringField(airtableLoc[1].fields, FieldSlug)
          = getStringField(airtableLoc[2].fields, FieldSlug)
    /\ airtableLoc[2].id = resp.r.data.ID
    /\ \A c \in Clients : locReq[c].pc = "idle"

(***************************************************************************)
(* Text helpers (package strings, package strconv)                         *)
(***************************************************************************)
Contains(s, substr) ==
    \E i \in 1..(Len(s) - Len(substr) + 1) :
       SubSeq(s, i, i + Len(substr) - 1) = substr

\* Texts that carry structured parts (an Authorization header, a token) are
\* held as sequences of lexemes: words, encoded JSON objects, signatures and
\* the separators between them.  The empty text is the empty sequence.
Text(t) == [kind |-> "text", text |-> t]
Space == [kind |-> "sep", text |-> " "]
Dot == [kind |-> "sep", text |-> "."]

RECURSIVE SplitFrom(_, _, _, _)
SplitFrom(s, sep, start, i) ==
    IF i > Len(s)
    THEN <<SubSeq(s, start, Len(s))>>
    ELSE IF s[i] = sep
         THEN <<SubSeq(s, start, i - 1)>> \o SplitFrom(s, sep, i + 1, i + 1)
         ELSE SplitFrom(s, sep, start, i + 1)

\* strings.Split: the parts between the separators; Split("", sep) has the
\* one part "".
Split(s, sep) == SplitFrom(s, sep, 1, 1)

RECURSIVE LowerRange(_, _, _)
LowerRange(s, lo, hi) ==
    IF lo > hi THEN ""
    ELSE IF lo = hi THEN ToLower(CharAt(s, lo))
    ELSE LET mid == (lo + hi) \div 2
         IN  LowerRange(s, lo, mid) \o LowerRange(s, mid + 1, hi)

\* strings.ToLower on a plain text.
StringsToLower(s) == LowerRange(s, 1, Len(s))

Digits == "0123456789"

DigitValue(c) == (CHOOSE d \in 1..10 : CharAt(Digits, d) = c) - 1

IsNumber(s) ==
    /\ s # ""
    /\ \A i \in 1..Len(s) : \E d \in 1..10 : CharAt(Digits, d) = CharAt(s, i)

RECURSIVE AtoiFrom(_, _, _)
AtoiFrom(s, i, acc) ==
    IF i > Len(s) THEN acc
    ELSE AtoiFrom(s, i + 1, 10 * acc + DigitValue(CharAt(s, i)))

Atoi(s) == AtoiFrom(s, 1, 0)

Itoa(n) == ToString(n)

(***************************************************************************)
(* Users: roles, account status, password hashing                          *)
(***************************************************************************)
RoleSuperAdmin == "Super Admin"
RoleAdmin == "Admin"
RoleUser == "User"
ValidRoles == {RoleSuperAdmin, RoleAdmin, RoleUser}

StatusPending == "pending"
StatusActive == "active"
StatusDisabled == "disabled"

\* bcrypt: a hash matches exactly the password it was made from.
HashPassword(password) == "$2a$" \o password

CheckPassword(hashedPassword, password) ==
    hashedPassword = HashPassword(password)

User(id, email, hashed, role, status, verificationToken) ==
    [ID |-> id, Email |-> email, Password |-> hashed, Role |-> role,
     Status |-> status, EmailVerificationToken |-> verificationToken]

NoUser == User("", "", "", "", "", "")

\* Accounts the deployment starts with: the store is seeded with a verified
\* super administrator and a verified administrator.
SeedUsers ==
    { User("1", "root@x", HashPassword("secret1"), RoleSuperAdmin, StatusActive, ""),
      User("2", "adm@x", HashPassword("secret1"), RoleAdmin, StatusActive, "") }

(***************************************************************************)
(* User repository (in-memory store, every method under its lock)          *)
(***************************************************************************)
NewInMemoryRepository(seed) ==
    LET ids == {u.ID : u \in seed}
        nums == {Atoi(id) : id \in {x \in ids : IsNumber(x)}}
    IN  [data |-> [id \in ids |-> CHOOSE u \in seed : u.ID = id],
         nextID |-> IF nums = {} THEN 1
                    ELSE 1 + (CHOOSE n \in nums : \A m \in nums : m <= n)]

\* Order of Go strings that hold decimal digits (byte-wise comparison).
RECURSIVE StringLess(_, _)
StringLess(a, b) ==
    IF b = "" THEN FALSE
    ELSE IF a = "" THEN TRUE
    ELSE IF CharAt(a, 1) = CharAt(b, 1)
         THEN StringLess(SubSeq(a, 2, Len(a)), SubSeq(b, 2, Len(b)))
         ELSE DigitValue(CharAt(a, 1)) < DigitValue(CharAt(b, 1))

RECURSIVE SortByID(_)
SortByID(us) ==
    IF us = {} THEN <<>>
    ELSE LET first == CHOOSE u \in us : \A v \in us \ {u} : StringLess(u.ID, v.ID)
         IN  <<first>> \o SortByID(us \ {first})

\* InMemoryRepository.List
UserList == SortByID({users[id] : id \in DOMAIN users})

\* InMemoryRepository.GetByEmail
GetByEmail(email) ==
    IF \E id \in DOMAIN users : users[id].Email = email
    THEN [ok |-> TRUE,
          user |-> users[CHOOSE id \in DOMAIN users : users[id].Email = email]]
    ELSE [ok |-> FALSE, user |-> NoUser]

\* Variant that stores the user without looking for its email.
UserCreate_noCheck(user) ==
    LET created == [user EXCEPT !.ID = Itoa(nextID)]
    IN  [err |-> "",
         data |-> [id \in DOMAIN users \cup {created.ID} |->
                      IF id = created.ID THEN created ELSE users[id]],
         nextID |-> nextID + 1,
         user |-> created]

\* InMemoryRepository.Create: the email is looked for and the user stored
\* under one write lock.
UserCreate(user) ==
    IF \E id \in DOMAIN users : users[id].Email = user.Email
    THEN [err |-> "user with email " \o user.Email \o " already exists",
          data |-> users, nextID |-> nextID, user |-> NoUser]
    ELSE LET created == [user EXCEPT !.ID = Itoa(nextID)]
         IN  [err |-> "",
              data |-> [id \in DOMAIN users \cup {created.ID} |->
                           IF id = created.ID THEN created ELSE users[id]],
              nextID |-> nextID + 1,
              user |-> created]

\* InMemoryRepository.Delete
UserDelete(id) ==
    IF id \notin DOMAIN users
    THEN [ok |-> FALSE, data |-> users]
    ELSE [ok |-> TRUE, data |-> [i \in DOMAIN users \ {id} |-> users[i]]]

\* Repository.Get
UserGet(id) ==
    IF id \in DOMAIN users
    THEN [ok |-> TRUE, user |-> users[id]]
    ELSE [ok |-> FALSE, user |-> NoUser]

\* Repository.Update: replaces the stored user, keeping its id.
UserUpdate(id, user) ==
    IF id \notin DOMAIN users
    THEN [err |-> "user not found", data |-> users, user |-> NoUser]
    ELSE LET updated == [user EXCEPT !.ID = id]
         IN  [err |-> "",
              data |-> [users EXCEPT ![id] = updated],
              user |-> updated]

\* Repository.GetByVerificationToken
GetByVerificationToken(token) ==
    IF \E id \in DOMAIN users : users[id].EmailVerificationToken = token
    THEN [ok |-> TRUE,
          user |-> users[CHOOSE id \in DOMAIN users :
                            users[id].EmailVerificationToken = token]]
    ELSE [ok |-> FALSE, user |-> NoUser]

\* 32 random bytes in hex: a value that no stored user carries.  The text
\* is derived from the id counter, which never repeats.
GenerateVerificationToken == "vt" \o Itoa(nextID)

(***************************************************************************)
(* Signed tokens (jwt, HS256).  A token is the text                        *)
(*     header "." claims "." signature                                     *)
(* of an encoded JSON header, encoded JSON claims and a keyed signature    *)
(* over the first two segments.                                            *)
(***************************************************************************)
JWTSecret == "K1"
Secrets == {"K1", "K2"}

Claims(userID, email, role, expiresAt, issuedAt) ==
    [UserID |-> userID, Email |-> email, Role |-> role,
     ExpiresAt |-> expiresAt, IssuedAt |-> issuedAt]

NoClaims == Claims("", "", "", 0, 0)

\* An encoded JSON object; complete is FALSE when the text stops before the
\* object is closed.
JSONSegment(value, complete) == [kind |-> "json", value |-> value, complete |-> complete]

HeaderHS256 == [alg |-> "HS256"]

\* Decode one segment as a JSON object; err is the decoder's message.
DecodeJSON(part) ==
    IF part = <<>>
    THEN [err |-> "unexpected end of JSON input", value |-> NoData]
    ELSE IF Len(part) = 1 /\ part[1].kind = "json"
    THEN IF part[1].complete
         THEN [err |-> "", value |-> part[1].value]
         ELSE [err |-> "unexpected end of JSON input", value |-> NoData]
    ELSE [err |-> "invalid character 'x' looking for beginning of value",
          value |-> NoData]

\* Keyed MAC of the signing string: equal exactly for equal key and text.
HS256(signingString, key) == [kind |-> "mac", key |-> key, over |-> signingString]

SignedString(claims, key) ==
    LET signingString == <<JSONSegment(HeaderHS256, TRUE), Dot,
                           JSONSegment(claims, TRUE)>>
    IN  signingString \o <<Dot, HS256(signingString, key)>>

\* GenerateToken
GenerateToken(user, secretKey, expiresIn) ==
    LET role == IF user.Role = "" THEN RoleUser ELSE user.Role
    IN  SignedString(Claims(user.ID, user.Email, role, now + expiresIn, now),
                     secretKey)

ErrTokenMalformed == "token is malformed"
ErrTokenUnverifiable == "token is unverifiable"
ErrTokenSignatureInvalid == "token signature is invalid"
ErrSignatureInvalid == "signature is invalid"
ErrTokenInvalidClaims == "token has invalid claims"
ErrTokenExpired == "token is expired"

ParseError(msg) == [err |-> msg, claims |-> NoClaims]

\* jwt.ParseWithClaims: split and decode, verify the signature with the key,
\* then validate the claims (a token is expired from its expiry time on).
ParseWithClaims(tokenString, key) ==
    LET parts == Split(tokenString, Dot)
    IN  IF Len(parts) # 3
        THEN ParseError(ErrTokenMalformed
                          \o ": token contains an invalid number of segments")
        ELSE LET header == DecodeJSON(parts[1])
                 body == DecodeJSON(parts[2])
             IN  IF header.err # ""
                 THEN ParseError(ErrTokenMalformed
                        \o ": could not JSON decode header: " \o header.err)
                 ELSE IF body.err # ""
                 THEN ParseError(ErrTokenMalformed
                        \o ": could not JSON decode claim: " \o body.err)
                 ELSE IF header.value # HeaderHS256
                 THEN ParseError(ErrTokenUnverifiable
                        \o ": signing method (alg) is unavailable")
                 ELSE IF parts[3] # <<HS256(parts[1] \o <<Dot>> \o parts[2], key)>>
                 THEN ParseError(ErrTokenSignatureInvalid \o ": " \o ErrSignatureInvalid)
                 ELSE IF now >= body.value.ExpiresAt
                 THEN ParseError(ErrTokenInvalidClaims \o ": " \o ErrTokenExpired)
                 ELSE [err |-> "", claims |-> body.value]

\* Variant that looks the token's user up in the store: a token of a user
\* that is gone or not active is refused, and the role is the stored one.
ValidateToken_userLookup(tokenString, secretKey) ==
    LET res == ParseWithClaims(tokenString, secretKey)
        found == UserGet(res.claims.UserID)
    IN  IF res.err # "" THEN res
        ELSE IF ~found.ok \/ found.user.Status # StatusActive
        THEN ParseError("token is revoked")
        ELSE [res EXCEPT !.claims.Role = found.user.Role]

\* ValidateToken
ValidateToken(tokenString, secretKey) == ParseWithClaims(tokenString, secretKey)

(***************************************************************************)
(* Request context and middleware                                          *)
(***************************************************************************)
NoKeys == [set |-> FALSE, user_id |-> "", user_email |-> "", user_role |-> ""]

\* A fresh request context carrying the Authorization header.
NewContext(authHeader) ==
    [header |-> authHeader, aborted |-> FALSE, r |-> Success(200, NoData),
     keys |-> NoKeys]

\* Write the response and c.Abort().
Abort(c, r) == [c EXCEPT !.aborted = TRUE, !.r = r]

\* Variant that never answers EXPIRED_TOKEN.
AuthMiddleware_noExpired(jwtSecret, c) ==
    LET authHeader == c.header
        parts == Split(authHeader, Space)
    IN  IF authHeader = <<>>
        THEN Abort(c, Unauthorized)
        ELSE IF Len(parts) # 2 \/ parts[1] # <<Text("Bearer")>>
        THEN Abort(c, InvalidToken)
        ELSE LET res == ValidateToken(parts[2], jwtSecret)
             IN  IF res.err # ""
                 THEN Abort(c, InvalidToken)
                 ELSE [c EXCEPT !.keys =
                          [set |-> TRUE,
                           user_id |-> res.claims.UserID,
                           user_email |-> res.claims.Email,
                           user_role |-> res.claims.Role]]

\* AuthMiddleware
AuthMiddleware(jwtSecret, c) ==
    LET authHeader == c.header
        parts == Split(authHeader, Space)
    IN  IF authHeader = <<>>
        THEN Abort(c, Unauthorized)
        ELSE IF Len(parts) # 2 \/ parts[1] # <<Text("Bearer")>>
        THEN Abort(c, InvalidToken)
        ELSE LET res == ValidateToken(parts[2], jwtSecret)
                 errMsg == StringsToLower(res.err)
             IN  IF res.err # ""
                 THEN IF Contains(errMsg, "expired") \/ Contains(errMsg, "exp")
                      THEN Abort(c, ExpiredToken)
                      ELSE Abort(c, InvalidToken)
                 ELSE [c EXCEPT !.keys =
                          [set |-> TRUE,
                           user_id |-> res.claims.UserID,
                           user_email |-> res.claims.Email,
                           user_role |-> res.claims.Role]]

\* Variant in which a higher role passes a gate meant for a lower one.
RequireRole_hierarchy(allowedRoles, c) ==
    LET rank(role) == CASE role = RoleSuperAdmin -> 3
                        [] role = RoleAdmin -> 2
                        [] OTHER -> 1
    IN  IF ~c.keys.set
        THEN Abort(c, Forbidden)
        ELSE IF \E allowed \in allowedRoles : rank(c.keys.user_role) >= rank(allowed)
        THEN c
        ELSE Abort(c, Forbidden)

\* RequireRole: the role set by AuthMiddleware must literally be one of the
\* allowed roles.
RequireRole(allowedRoles, c) ==
    IF ~c.keys.set
    THEN Abort(c, Forbidden)
    ELSE IF \E allowed \in allowedRoles : c.keys.user_role = allowed
    THEN c
    ELSE Abort(c, Forbidden)

RequireAdmin(c) == RequireRole({RoleAdmin}, c)

\* Router groups: the protected group runs AuthMiddleware; the admin and the
\* super-admin sub-groups add their role gate.  An aborted context skips
\* every later handler of the chain.
ProtectedGroup(authHeader) == AuthMiddleware(JWTSecret, NewContext(authHeader))

AdminRoutes(authHeader) ==
    LET c == ProtectedGroup(authHeader)
    IN  IF c.aborted THEN c ELSE RequireAdmin(c)

SuperAdminRoutes(authHeader) ==
    LET c == ProtectedGroup(authHeader)
    IN  IF c.aborted THEN c ELSE RequireRole({RoleSuperAdmin}, c)

(***************************************************************************)
(* Requests the clients send                                               *)
(***************************************************************************)
RegisterRequests ==
    { [Email |-> "a@x", Password |-> "secret1"],
      [Email |-> "a@x", Password |-> "short"] }

LoginRequests ==
    [Email : {"root@x", "adm@x", "a@x", "no@x"}, Password : {"secret1", "wrong"}]

CreateUserPayloads ==
    { [Email |-> "a@x", Password |-> "secret1", Role |-> ""],
      [Email |-> "a@x", Password |-> "secret1", Role |-> "Root"] }

UpdateUserPayloads ==
    { [Password |-> "", Role |-> "", Status |-> StatusDisabled],
      [Password |-> "", Role |-> "", Status |-> StatusActive],
      [Password |-> "", Role |-> "", Status |-> StatusPending],
      [Password |-> "", Role |-> RoleAdmin, Status |-> ""],
      [Password |-> "", Role |-> "", Status |-> ""] }

\* Ids addressed by PUT and DELETE /users/:id: the accounts created at run
\* time and one id that no account has.
UserIDParams == {Itoa(n) : n \in 3..MaxUsers} \cup {"9"}

\* Verification tokens sent to GET /auth/verify-email: none, a made-up one,
\* and those mailed to account owners.
VerificationTokenParams == {"", "bogus"} \cup {"vt" \o Itoa(n) : n \in 3..MaxUsers}

\* binding:"required,email"
ValidEmail(email) == email # "" /\ Contains(email, "@")

\* Authorization headers of well-behaved clients.
ClientHeaders == {<<>>} \cup {<<Text("Bearer"), Space>> \o t : t \in issued}

(***************************************************************************)
(* Public handlers                                                         *)
(***************************************************************************)
\* RegisterHandler up to the GetByEmail check.
RegisterHandlerCheck(cl, req) ==
    /\ regReq[cl].pc = "idle"
    /\ UNCHANGED <<users, nextID, issued, now>>
    /\ UNCHANGED locVars
    /\ UNCHANGED memVars
    /\ IF ~(ValidEmail(req.Email) /\ Len(req.Password) >= 6)
       THEN /\ resp' = Exchange("RegisterHandler", [body |-> req, existed |-> GetByEmail(req.Email).ok,
                                 stage |-> "check"],
                                ValidationError)
            /\ UNCHANGED regReq
       ELSE IF GetByEmail(req.Email).ok
       THEN /\ resp' = Exchange("RegisterHandler", [body |-> req, existed |-> TRUE, stage |-> "check"],
                                DuplicateEmail)
            /\ UNCHANGED regReq
       ELSE /\ regReq' = [regReq EXCEPT ![cl] = [pc |-> "create", body |-> req]]
            /\ UNCHANGED resp

\* RegisterHandler from HashPassword on: repo.Create and the response.
RegisterHandlerCreate(cl) ==
    /\ regReq[cl].pc = "create"
    /\ LET req == regReq[cl].body
           user == User("", req.Email, HashPassword(req.Password), RoleUser,
                        StatusPending, GenerateVerificationToken)
           res == UserCreate(user)
           existed == GetByEmail(req.Email).ok
       IN  /\ res.err = "" => nextID <= MaxUsers
           /\ users' = res.data
           /\ nextID' = res.nextID
           /\ resp' = Exchange("RegisterHandler",
                        [body |-> req, existed |-> existed, stage |-> "create"],
                        IF res.err # ""
                        THEN IF Contains(res.err, "already exists")
                             THEN DuplicateEmail
                             ELSE InternalError
                        ELSE Success(201, [res.user EXCEPT !.Password = "",
                                              !.EmailVerificationToken = ""]))
    /\ regReq' = [regReq EXCEPT ![cl] = Idle]
    /\ UNCHANGED <<issued, now>>
    /\ UNCHANGED locVars
    /\ UNCHANGED memVars

\* Variant that activates the account and leaves its token stored.
VerifyEmailHandler_keepToken(token) ==
    LET found == GetByVerificationToken(token)
        user == [found.user EXCEPT !.Status = StatusActive]
        res == UserUpdate(found.user.ID, user)
        req == [token |-> token, found |-> found.ok /\ token # "",
                before |-> IF token # "" THEN found.user ELSE NoUser]
    IN  /\ UNCHANGED <<nextID, regReq, issued, now>>
        /\ UNCHANGED locVars
        /\ UNCHANGED memVars
        /\ IF token = ""
           THEN /\ resp' = Exchange("VerifyEmailHandler", req, BadRequest)
                /\ UNCHANGED users
           ELSE IF ~found.ok
           THEN /\ resp' = Exchange("VerifyEmailHandler", req, NotFound)
                /\ UNCHANGED users
           ELSE IF found.user.Status = StatusActive
           THEN /\ resp' = Exchange("VerifyEmailHandler", req,
                                    Success(200, [email |-> found.user.Email]))
                /\ UNCHANGED users
           ELSE IF res.err # ""
           THEN /\ resp' = Exchange("VerifyEmailHandler", req, InternalError)
                /\ UNCHANGED users
           ELSE /\ users' = res.data
                /\ resp' = Exchange("VerifyEmailHandler", req,
                              Success(200, [res.user EXCEPT !.Password = "",
                                               !.EmailVerificationToken = ""]))

\* VerifyEmailHandler
VerifyEmailHandler(token) ==
    LET found == GetByVerificationToken(token)
        user == [found.user EXCEPT !.Status = StatusActive,
                                   !.EmailVerificationToken = ""]
        res == UserUpdate(found.user.ID, user)
        req == [token |-> token, found |-> found.ok /\ token # "",
                before |-> IF token # "" THEN found.user ELSE NoUser]
    IN  /\ UNCHANGED <<nextID, regReq, issued, now>>
        /\ UNCHANGED locVars
        /\ UNCHANGED memVars
        /\ IF token = ""
           THEN /\ resp' = Exchange("VerifyEmailHandler", req, BadRequest)
                /\ UNCHANGED users
           ELSE IF ~found.ok
           THEN /\ resp' = Exchange("VerifyEmailHandler", req, NotFound)
                /\ UNCHANGED users
           ELSE IF found.user.Status = StatusActive
           THEN /\ resp' = Exchange("VerifyEmailHandler", req,
                                    Success(200, [email |-> found.user.Email]))
                /\ UNCHANGED users
           ELSE IF res.err # ""
           THEN /\ resp' = Exchange("VerifyEmailHandler", req, InternalError)
                /\ UNCHANGED users
           ELSE /\ users' = res.data
                /\ resp' = Exchange("VerifyEmailHandler", req,
                              Success(200, [res.user EXCEPT !.Password = "",
                                               !.EmailVerificationToken = ""]))

\* Variant that issues a token without comparing the password.
Login_noPasswordCheck(req) ==
    LET found == GetByEmail(req.Email)
        user == found.user
        token == GenerateToken(user, JWTSecret, tokenExpiry)
        ex(r) == Exchange("Login", [body |-> req, found |-> found.ok,
                                    user |-> user, at |-> now], r)
    IN  /\ UNCHANGED <<users, nextID, regReq, now>>
        /\ UNCHANGED locVars
        /\ UNCHANGED memVars
        /\ IF ~(ValidEmail(req.Email) /\ req.Password # "")
           THEN resp' = ex(ValidationError) /\ UNCHANGED issued
           ELSE IF ~found.ok
           THEN resp' = ex(InvalidAuth) /\ UNCHANGED issued
           ELSE IF user.Status = StatusDisabled
           THEN resp' = ex(Forbidden) /\ UNCHANGED issued
           ELSE IF user.Status # StatusActive
           THEN resp' = ex(Forbidden) /\ UNCHANGED issued
           ELSE /\ resp' = ex(Success(200,
                              [AccessToken |-> token, TokenType |-> "Bearer",
                               ExpiresIn |-> tokenExpiry,
                               User |-> [user EXCEPT !.Password = ""]]))
                /\ issued' = IF Cardinality(issued) < MaxTokens
                             THEN issued \cup {token}
                             ELSE issued

\* Variant that issues a token whatever the account status is.
Login_noStatusCheck(req) ==
    LET found == GetByEmail(req.Email)
        user == found.user
        token == GenerateToken(user, JWTSecret, tokenExpiry)
        ex(r) == Exchange("Login", [body |-> req, found |-> found.ok,
                                    user |-> user, at |-> now], r)
    IN  /\ UNCHANGED <<users, nextID, regReq, now>>
        /\ UNCHANGED locVars
        /\ UNCHANGED memVars
        /\ IF ~(ValidEmail(req.Email) /\ req.Password # "")
           THEN resp' = ex(ValidationError) /\ UNCHANGED issued
           ELSE IF ~found.ok
           THEN resp' = ex(InvalidAuth) /\ UNCHANGED issued
           ELSE IF ~CheckPassword(user.Password, req.Password)
           THEN resp' = ex(InvalidAuth) /\ UNCHANGED issued
           ELSE /\ resp' = ex(Success(200,
                              [AccessToken |-> token, TokenType |-> "Bearer",
                               ExpiresIn |-> tokenExpiry,
                               User |-> [user EXCEPT !.Password = ""]]))
                /\ issued' = IF Cardinality(issued) < MaxTokens
                             THEN issued \cup {token}
                             ELSE issued

\* Login.  Clients keep at most MaxTokens of the tokens they were given.
Login(req) ==
    LET found == GetByEmail(req.Email)
        user == found.user
        token == GenerateToken(user, JWTSecret, tokenExpiry)
        ex(r) == Exchange("Login", [body |-> req, found |-> found.ok,
                                    user |-> user, at |-> now], r)
    IN  /\ UNCHANGED <<users, nextID, regReq, now>>
        /\ UNCHANGED locVars
        /\ UNCHANGED memVars
        /\ IF ~(ValidEmail(req.Email) /\ req.Password # "")
           THEN resp' = ex(ValidationError) /\ UNCHANGED issued
           ELSE IF ~found.ok
           THEN resp' = ex(InvalidAuth) /\ UNCHANGED issued
           ELSE IF user.Status = StatusDisabled
           THEN resp' = ex(Forbidden) /\ UNCHANGED issued
           ELSE IF user.Status # StatusActive
           THEN resp' = ex(Forbidden) /\ UNCHANGED issued
           ELSE IF ~CheckPassword(user.Password, req.Password)
           THEN resp' = ex(InvalidAuth) /\ UNCHANGED issued
           ELSE /\ resp' = ex(Success(200,
                              [AccessToken |-> token, TokenType |-> "Bearer",
                               ExpiresIn |-> tokenExpiry,
                               User |-> [user EXCEPT !.Password = ""]]))
                /\ issued' = IF Cardinality(issued) < MaxTokens
                             THEN issued \cup {token}
                             ELSE issued

\* Login of the earlier handler file: the account is looked up and the
\* password compared; the account has no status to look at.
LoginEarlier(req) ==
    LET found == GetByEmail(req.Email)
        user == found.user
        token == GenerateToken(user, JWTSecret, tokenExpiry)
        ex(r) == Exchange("Login", [body |-> req, found |-> found.ok,
                                    user |-> user, stage |-> "earlier",
                                    at |-> now], r)
    IN  /\ UNCHANGED <<users, nextID, regReq, now>>
        /\ UNCHANGED locVars
        /\ UNCHANGED memVars
        /\ IF ~(ValidEmail(req.Email) /\ req.Password # "")
           THEN resp' = ex(ValidationError) /\ UNCHANGED issued
           ELSE IF ~found.ok
           THEN resp' = ex(InvalidAuth) /\ UNCHANGED issued
           ELSE IF ~CheckPassword(user.Password, req.Password)
           THEN resp' = ex(InvalidAuth) /\ UNCHANGED issued
           ELSE /\ resp' = ex(Success(200,
                              [AccessToken |-> token, TokenType |-> "Bearer",
                               ExpiresIn |-> tokenExpiry,
                               User |-> [user EXCEPT !.Password = ""]]))
                /\ issued' = IF Cardinality(issued) < MaxTokens
                             THEN issued \cup {token}
                             ELSE issued

\* RegisterHandler of the earlier handler file: the account is created
\* with the fields Email, Password and Role only, and the answer carries a
\* token for immediate use.
RegisterHandlerAutoLogin(req) ==
    LET user == User("", req.Email, HashPassword(req.Password), RoleUser, "", "")
        existed == GetByEmail(req.Email).ok
        res == UserCreate(user)
        token == GenerateToken(res.user, JWTSecret, tokenExpiry)
        ex(r) == Exchange("RegisterHandler",
                    [body |-> req, existed |-> existed, stage |-> "autologin",
                     at |-> now], r)
    IN  /\ UNCHANGED <<regReq, now>>
        /\ UNCHANGED locVars
        /\ UNCHANGED memVars
        /\ IF ~(ValidEmail(req.Email) /\ Len(req.Password) >= 6)
           THEN resp' = ex(ValidationError) /\ UNCHANGED <<users, nextID, issued>>
           ELSE IF existed
           THEN resp' = ex(DuplicateEmail) /\ UNCHANGED <<users, nextID, issued>>
           ELSE /\ nextID <= MaxUsers
                /\ users' = res.data
                /\ nextID' = res.nextID
                /\ resp' = ex(Success(201,
                              [AccessToken |-> token, TokenType |-> "Bearer",
                               ExpiresIn |-> tokenExpiry,
                               User |-> [res.user EXCEPT !.Password = ""]]))
                /\ issued' = IF Cardinality(issued) < MaxTokens
                             THEN issued \cup {token}
                             ELSE issued

(***************************************************************************)
(* Role-gated user management routes                                       *)
(***************************************************************************)
\* What the exchange records of a protected request: the header, the keys
\* the middleware chain left in the context, whether the handler ran.
Gate(c, params) ==
    [hdr |-> c.header, keys |-> c.keys, ran |-> ~c.aborted, at |-> now,
     params |-> params]

\* Variant that returns the stored users as they are.
ListUsers_keepPassword(authHeader) ==
    LET c == AdminRoutes(authHeader)
    IN  /\ UNCHANGED userVars
        /\ UNCHANGED locVars
        /\ UNCHANGED memVars
        /\ IF c.aborted
           THEN resp' = Exchange("ListUsers", Gate(c, NoData), c.r)
           ELSE resp' = Exchange("ListUsers", Gate(c, NoData),
                           Success(200, [i \in DOMAIN UserList |-> UserList[i]]))

\* GET /users -> ListUsers
ListUsers(authHeader) ==
    LET c == AdminRoutes(authHeader)
    IN  /\ UNCHANGED userVars
        /\ UNCHANGED locVars
        /\ UNCHANGED memVars
        /\ IF c.aborted
           THEN resp' = Exchange("ListUsers", Gate(c, NoData), c.r)
           ELSE resp' = Exchange("ListUsers", Gate(c, NoData),
                           Success(200, [i \in DOMAIN UserList |->
                                           [UserList[i] EXCEPT !.Password = ""]]))

\* POST /users -> CreateUser
CreateUser(authHeader, payload) ==
    LET c == AdminRoutes(authHeader)
        role == IF payload.Role = "" THEN RoleUser ELSE payload.Role
        user == User("", payload.Email, HashPassword(payload.Password), role,
                     StatusPending, GenerateVerificationToken)
        res == UserCreate(user)
        req == Gate(c, [body |-> payload, existed |-> GetByEmail(payload.Email).ok])
    IN  /\ UNCHANGED <<regReq, issued, now>>
        /\ UNCHANGED locVars
        /\ UNCHANGED memVars
        /\ IF c.aborted
           THEN /\ resp' = Exchange("CreateUser", req, c.r)
                /\ UNCHANGED <<users, nextID>>
           ELSE IF ~(ValidEmail(payload.Email) /\ Len(payload.Password) >= 6)
           THEN /\ resp' = Exchange("CreateUser", req, ValidationError)
                /\ UNCHANGED <<users, nextID>>
           ELSE IF role \notin ValidRoles
           THEN /\ resp' = Exchange("CreateUser", req, ValidationError)
                /\ UNCHANGED <<users, nextID>>
           ELSE /\ res.err = "" => nextID <= MaxUsers
                /\ users' = res.data
                /\ nextID' = res.nextID
                /\ resp' = Exchange("CreateUser", req,
                             IF res.err # ""
                             THEN IF Contains(res.err, "already exists")
                                  THEN DuplicateEmail
                                  ELSE InternalError
                             ELSE Success(201, [res.user EXCEPT !.Password = "",
                                                   !.EmailVerificationToken = ""]))

\* DELETE /users/:id -> DeleteUser
DeleteUser(authHeader, id) ==
    LET c == AdminRoutes(authHeader)
        res == UserDelete(id)
        req == Gate(c, [id |-> id])
    IN  /\ UNCHANGED <<nextID, regReq, issued, now>>
        /\ UNCHANGED locVars
        /\ UNCHANGED memVars
        /\ IF c.aborted
           THEN resp' = Exchange("DeleteUser", req, c.r) /\ UNCHANGED users
           ELSE IF id = ""
           THEN resp' = Exchange("DeleteUser", req, BadRequest) /\ UNCHANGED users
           ELSE IF ~res.ok
           THEN resp' = Exchange("DeleteUser", req, NotFound) /\ UNCHANGED users
           ELSE /\ users' = res.data
                /\ resp' = Exchange("DeleteUser", req, Success(200, NoData))

\* PUT /users/:id -> UpdateUser
UpdateUser(authHeader, id, payload) ==
    LET c == SuperAdminRoutes(authHeader)
        existing == UserGet(id)
        withPassword == IF payload.Password # ""
                        THEN [existing.user EXCEPT
                                 !.Password = HashPassword(payload.Password)]
                        ELSE existing.user
        withRole == IF payload.Role # ""
                    THEN [withPassword EXCEPT !.Role = payload.Role]
                    ELSE withPassword
        updatedUser == IF payload.Status # ""
                       THEN [withRole EXCEPT !.Status = payload.Status]
                       ELSE withRole
        res == UserUpdate(id, updatedUser)
        req == Gate(c, [id |-> id, body |-> payload, before |-> existing.user])
        Reply(r) == resp' = Exchange("UpdateUser", req, r) /\ UNCHANGED users
    IN  /\ UNCHANGED <<nextID, regReq, issued, now>>
        /\ UNCHANGED locVars
        /\ UNCHANGED memVars
        /\ IF c.aborted THEN Reply(c.r)
           ELSE IF id = "" THEN Reply(BadRequest)
           ELSE IF ~existing.ok THEN Reply(NotFound)
           ELSE IF payload.Password # "" /\ Len(payload.Password) < 6
           THEN Reply(ValidationError)
           ELSE IF payload.Role # "" /\ payload.Role \notin ValidRoles
           THEN Reply(ValidationError)
           ELSE IF payload.Status # ""
                   /\ payload.Status \notin {StatusActive, StatusDisabled}
           THEN Reply(ValidationError)
           ELSE IF payload.Password = "" /\ payload.Role = "" /\ payload.Status = ""
           THEN Reply(ValidationError)
           ELSE IF res.err # "" THEN Reply(InternalError)
           ELSE /\ users' = res.data
                /\ resp' = Exchange("UpdateUser", req,
                              Success(200, [res.user EXCEPT !.Password = ""]))

(***************************************************************************)
(* Password changes (protected group: any authenticated caller)            *)
(***************************************************************************)
\* Bodies sent to the password routes: old_password absent, right or wrong;
\* new_password new, equal to the current one, or too short.
ChangePasswordPayloads ==
    [OldPassword : {"", "secret1", "wrong11"},
     NewPassword : {"secret2", "secret1", "short"}]

\* Ids addressed by POST /users/:id/change-password: the seeded accounts and
\* one id that no account has.
PasswordIDParams == {"1", "2", "9"}

\* Sign-in with either password the accounts can have.
PasswordLoginRequests ==
    [Email : {"root@x", "adm@x"}, Password : {"secret1", "secret2"}]

\* POST /auth/change-password -> ChangePassword
ChangePassword(authHeader, payload) ==
    LET c == ProtectedGroup(authHeader)
        userIDStr == c.keys.user_id
        currentUser == UserGet(userIDStr)
        res == UserUpdate(userIDStr,
                  [currentUser.user EXCEPT
                      !.Password = HashPassword(payload.NewPassword)])
        req == Gate(c, [body |-> payload, users |-> users])
        Reply(r) == resp' = Exchange("ChangePassword", req, r) /\ UNCHANGED users
    IN  /\ UNCHANGED <<nextID, regReq, issued, now>>
        /\ UNCHANGED locVars
        /\ UNCHANGED memVars
        /\ IF c.aborted THEN Reply(c.r)
           ELSE IF ~c.keys.set THEN Reply(Unauthorized)
           ELSE IF payload.OldPassword = "" \/ Len(payload.NewPassword) < 6
           THEN Reply(ValidationError)
           ELSE IF ~currentUser.ok THEN Reply(NotFound)
           ELSE IF ~CheckPassword(currentUser.user.Password, payload.OldPassword)
           THEN Reply(Forbidden)
           ELSE IF CheckPassword(currentUser.user.Password, payload.NewPassword)
           THEN Reply(ValidationError)
           ELSE IF res.err # "" THEN Reply(InternalError)
           ELSE /\ users' = res.data
                /\ resp' = Exchange("ChangePassword", req,
                              Success(200, [res.user EXCEPT
                                               !.Password = "",
                                               !.EmailVerificationToken = ""]))

\* Variant without the check that the caller is the target or a Super Admin.
ChangeUserPassword_anyTarget(authHeader, id, payload) ==
    LET c == ProtectedGroup(authHeader)
        authUserIDStr == c.keys.user_id
        authUserRoleStr == c.keys.user_role
        targetUser == UserGet(id)
        res == UserUpdate(id,
                  [targetUser.user EXCEPT
                      !.Password = HashPassword(payload.NewPassword)])
        req == Gate(c, [id |-> id, body |-> payload, users |-> users])
        Reply(r) == resp' = Exchange("ChangeUserPassword", req, r) /\ UNCHANGED users
    IN  /\ UNCHANGED <<nextID, regReq, issued, now>>
        /\ UNCHANGED locVars
        /\ UNCHANGED memVars
        /\ IF c.aborted THEN Reply(c.r)
           ELSE IF ~c.keys.set THEN Reply(Unauthorized)
           ELSE IF id = "" THEN Reply(BadRequest)
           ELSE IF Len(payload.NewPassword) < 6 THEN Reply(ValidationError)
           ELSE IF ~targetUser.ok THEN Reply(NotFound)
           ELSE IF authUserRoleStr # RoleSuperAdmin /\ authUserIDStr = id
                   /\ payload.OldPassword = ""
           THEN Reply(ValidationError)
           ELSE IF authUserRoleStr # RoleSuperAdmin /\ authUserIDStr = id
                   /\ ~CheckPassword(targetUser.user.Password, payload.OldPassword)
           THEN Reply(Forbidden)
           ELSE IF CheckPassword(targetUser.user.Password, payload.NewPassword)
           THEN Reply(ValidationError)
           ELSE IF res.err # "" THEN Reply(InternalError)
           ELSE /\ users' = res.data
                /\ resp' = Exchange("ChangeUserPassword", req,
                              Success(200, [res.user EXCEPT
                                               !.Password = "",
                                               !.EmailVerificationToken = ""]))

\* POST /users/:id/change-password -> ChangeUserPassword
ChangeUserPassword(authHeader, id, payload) ==
    LET c == ProtectedGroup(authHeader)
        authUserIDStr == c.keys.user_id
        authUserRoleStr == c.keys.user_role
        targetUser == UserGet(id)
        res == UserUpdate(id,
                  [targetUser.user EXCEPT
                      !.Password = HashPassword(payload.NewPassword)])
        req == Gate(c, [id |-> id, body |-> payload, users |-> users])
        Reply(r) == resp' = Exchange("ChangeUserPassword", req, r) /\ UNCHANGED users
    IN  /\ UNCHANGED <<nextID, regReq, issued, now>>
        /\ UNCHANGED locVars
        /\ UNCHANGED memVars
        /\ IF c.aborted THEN Reply(c.r)
           ELSE IF ~c.keys.set THEN Reply(Unauthorized)
           ELSE IF id = "" THEN Reply(BadRequest)
           ELSE IF authUserRoleStr # RoleSuperAdmin /\ authUserIDStr # id
           THEN Reply(Forbidden)
           ELSE IF Len(payload.NewPassword) < 6 THEN Reply(ValidationError)
           ELSE IF ~targetUser.ok THEN Reply(NotFound)
           ELSE IF authUserRoleStr # RoleSuperAdmin /\ authUserIDStr = id
                   /\ payload.OldPassword = ""
           THEN Reply(ValidationError)
           ELSE IF authUserRoleStr # RoleSuperAdmin /\ authUserIDStr = id
                   /\ ~CheckPassword(targetUser.user.Password, payload.OldPassword)
           THEN Reply(Forbidden)
           ELSE IF CheckPassword(targetUser.user.Password, payload.NewPassword)
           THEN Reply(ValidationError)
           ELSE IF res.err # "" THEN Reply(InternalError)
           ELSE /\ users' = res.data
                /\ resp' = Exchange("ChangeUserPassword", req,
                              Success(200, [res.user EXCEPT
                                               !.Password = "",
                                               !.EmailVerificationToken = ""]))

\* The stored password hashes.
Hashes(us) == [id \in DOMAIN us |-> us[id].Password]

\* C26: ChangeUserPassword changes a password only for a caller whose token
\* role is Super Admin, or for a caller whose token user id is the target id
\* and whose old_password matches the stored hash; then exactly the target's
\* hash changes, to the hash of new_password.  A Super Admin caller naming a
\* stored user and a new password of six characters or more that differs
\* from the current one succeeds without old_password.  Every other answer
\* leaves every stored hash as it was.
C26_PasswordChangeNeedsOwnerOrSuperAdmin ==
    resp.handler = "ChangeUserPassword" =>
       LET keys == resp.req.keys
           id == resp.req.params.id
           body == resp.req.params.body
           before == resp.req.params.users
       IN  /\ resp.r.success =>
                /\ resp.req.ran
                /\ id \in DOMAIN before
                /\ \/ keys.user_role = RoleSuperAdmin
                   \/ /\ keys.user_id = id
                      /\ CheckPassword(before[id].Password, body.OldPassword)
                /\ users = [before EXCEPT
                               ![id].Password = HashPassword(body.NewPassword)]
           /\ ~resp.r.success =>
                /\ resp.r.status \in {400, 401, 403, 404, 500}
                /\ Hashes(users) = Hashes(before)
           /\ (/\ resp.req.ran
               /\ keys.user_role = RoleSuperAdmin
               /\ id \in DOMAIN before
               /\ Len(body.NewPassword) >= 6
               /\ ~CheckPassword(before[id].Password, body.NewPassword)) =>
                  resp.r.success

\* The administrator, who is no Super Admin, changed their own password with
\* the right old password.
C26_Witness ==
    /\ resp.handler = "ChangeUserPassword"
    /\ resp.req.keys.user_role = RoleAdmin
    /\ resp.req.keys.user_id = resp.req.params.id
    /\ resp.r.success
    /\ users["2"].Password = HashPassword("secret2")
    /\ resp.req.params.users["2"].Password = HashPassword("secret1")

\* The Super Admin changed the administrator's password without an old
\* password.
C26_WitnessSuperAdmin ==
    /\ resp.handler = "ChangeUserPassword"
    /\ resp.req.keys.user_role = RoleSuperAdmin
    /\ resp.req.params.id = "2"
    /\ resp.req.params.body.OldPassword = ""
    /\ resp.r.success
    /\ users["2"].Password # resp.req.params.users["2"].Password

\* The administrator was refused with 403 when naming the Super Admin's id.
C26_WitnessForbidden ==
    /\ resp.handler = "ChangeUserPassword"
    /\ resp.req.keys.user_role = RoleAdmin
    /\ resp.req.params.id = "1"
    /\ resp.r = Forbidden
    /\ users = resp.req.params.users

(***************************************************************************)
(* Token validation on its own: a deployment configured with jwtSecret     *)
(* receives a request carrying authHeader on a protected route.            *)
(***************************************************************************)
\* A token with a complete header and claims signed by somebody else.
ForeignToken ==
    SignedString(Claims("1", "root@x", RoleSuperAdmin, MaxTime + 1, 0), "K2")

\* A token whose header segment stops before its JSON object is closed.
TruncatedToken ==
    <<JSONSegment(HeaderHS256, FALSE), Dot, JSONSegment(NoClaims, TRUE), Dot, Text("x")>>

\* Headers of arbitrary clients.
AnyHeaders ==
    { <<>>,
      <<Text("Bearer")>>,
      <<Text("Bearer"), Space>>,
      <<Text("Bearer"), Space, Text("abc")>>,
      <<Text("Bearer"), Space, Text("x"), Dot, Text("y"), Dot, Text("z")>>,
      <<Text("Bearer"), Space, Dot, Dot>>,
      <<Text("Bearer"), Space>> \o TruncatedToken,
      <<Text("Bearer"), Space>> \o ForeignToken }
    \cup {<<Text("Bearer"), Space>> \o t : t \in issued}
    \cup {<<Text("Basic"), Space>> \o t : t \in issued}
    \cup {<<Text("bearer"), Space>> \o t : t \in issued}
    \cup {<<Text("Bearer"), Space>> \o t \o <<Space, Text("x")>> : t \in issued}

ProtectedRequest(jwtSecret, authHeader) ==
    LET c == AuthMiddleware(jwtSecret, NewContext(authHeader))
    IN  /\ resp' = Exchange("AuthMiddleware",
                     [secret |-> jwtSecret, hdr |-> authHeader, at |-> now,
                      keys |-> c.keys, next |-> ~c.aborted],
                     c.r)
        /\ UNCHANGED userVars
        /\ UNCHANGED locVars
        /\ UNCHANGED memVars

\* Time passes.
Tick ==
    /\ now < MaxTime
    /\ now' = now + 1
    /\ UNCHANGED <<users, nextID, regReq, issued, resp>>
    /\ UNCHANGED locVars
    /\ UNCHANGED memVars

(***************************************************************************)
(* Properties of accounts, tokens and middleware                           *)
(***************************************************************************)
WellFormedCreate(body) == ValidEmail(body.Email) /\ Len(body.Password) >= 6

\* C4: under every interleaving of RegisterHandler and CreateUser no two
\* stored users share an email; a well-formed create for an email that is
\* already stored is answered 409 DUPLICATE_EMAIL, and a request answered
\* DUPLICATE_EMAIL stores nothing.
C4_EmailsUnique ==
    /\ [](/\ \A i, j \in DOMAIN users : users[i].Email = users[j].Email => i = j
          /\ (/\ resp.handler = "RegisterHandler"
              /\ resp.req.existed
              /\ WellFormedCreate(resp.req.body))
                => (resp.r = DuplicateEmail /\ resp.r.status = 409)
          /\ (/\ resp.handler = "CreateUser"
              /\ resp.req.ran
              /\ resp.req.params.existed
              /\ WellFormedCreate(resp.req.params.body)
              /\ resp.req.params.body.Role \in ValidRoles \cup {""})
                => (resp.r = DuplicateEmail /\ resp.r.status = 409))
    /\ [][resp'.r = DuplicateEmail => users' = users]_vars

\* Two registrations of one email both passed the GetByEmail check; the
\* second repo.Create was refused and one user carries the email.
C4_Witness ==
    /\ resp.handler = "RegisterHandler"
    /\ resp.req.stage = "create"
    /\ resp.r = DuplicateEmail
    /\ Cardinality({id \in DOMAIN users : users[id].Email = resp.req.body.Email}) = 1

\* The claims a generated token carries.
ClaimsOf(token) == token[3].value

\* C5: a registered user is stored Pending with role User; Login for a
\* Pending user is answered 403 FORBIDDEN whatever the password; verifying
\* with the token of a Pending user makes the user Active; Login for an
\* Active user with the right password is answered 200 with a token whose
\* role claim is the user's role, "User" for a registered user.
C5_PendingUntilVerified ==
    /\ (resp.handler = "RegisterHandler" /\ resp.r.success) =>
          /\ resp.r.status = 201
          /\ resp.r.data.Role = RoleUser
          /\ resp.r.data.Status = StatusPending
          /\ users[resp.r.data.ID].Role = RoleUser
          /\ users[resp.r.data.ID].Status = StatusPending
    /\ (/\ resp.handler = "Login"
        /\ resp.req.found
        /\ resp.req.user.Status = StatusPending)
          => (resp.r = Forbidden /\ resp.r.status = 403)
    /\ (/\ resp.handler = "VerifyEmailHandler"
        /\ resp.req.found
        /\ resp.req.before.Status = StatusPending)
          => /\ resp.r.success
             /\ users[resp.req.before.ID].Status = StatusActive
    /\ (/\ resp.handler = "Login"
        /\ resp.req.found
        /\ resp.req.user.Status = StatusActive
        /\ CheckPassword(resp.req.user.Password, resp.req.body.Password))
          => /\ resp.r.status = 200
             /\ ClaimsOf(resp.r.data.AccessToken).Role = resp.req.user.Role
             /\ ClaimsOf(resp.r.data.AccessToken).UserID = resp.req.user.ID

\* The registered user a@x verified the email and logged in: 200 with the
\* role claim "User"; no administrator token was ever handed out.
C5_Witness ==
    /\ resp.handler = "Login"
    /\ resp.r.status = 200
    /\ resp.req.body.Email = "a@x"
    /\ ClaimsOf(resp.r.data.AccessToken).Role = "User"
    /\ issued = {resp.r.data.AccessToken}
    /\ resp.req.user.EmailVerificationToken = ""

StatusChanged(id) ==
    /\ id \in DOMAIN users
    /\ id \in DOMAIN users'
    /\ users'[id].Status # users[id].Status

\* C6 as stated: every change of a user's status is Pending -> Active by
\* VerifyEmailHandler, Active -> Disabled by UpdateUser or Disabled -> Active
\* by UpdateUser.
C6_OnlyThreeTransitions ==
    [][\A id \in DOMAIN users :
          StatusChanged(id) =>
             \/ /\ users[id].Status = StatusPending
                /\ users'[id].Status = StatusActive
                /\ resp'.handler = "VerifyEmailHandler"
             \/ /\ users[id].Status = StatusActive
                /\ users'[id].Status = StatusDisabled
                /\ resp'.handler = "UpdateUser"
             \/ /\ users[id].Status = StatusDisabled
                /\ users'[id].Status = StatusActive
                /\ resp'.handler = "UpdateUser"]_vars

\* C7 as stated: Login for a Disabled user is answered 403, and a Disabled
\* user leaves that status only by a role-gated UpdateUser.
C7_DisabledUntilAdminUpdate ==
    /\ []((/\ resp.handler = "Login"
           /\ resp.req.found
           /\ resp.req.user.Status = StatusDisabled)
             => resp.r = Forbidden)
    /\ [][\A id \in DOMAIN users :
             (StatusChanged(id) /\ users[id].Status = StatusDisabled) =>
                /\ resp'.handler = "UpdateUser"
                /\ resp'.req.ran
                /\ resp'.req.keys.user_role = RoleSuperAdmin]_vars

BearerHeader(t) == <<Text("Bearer"), Space>> \o t

\* C8: a token generated with the secret K1 fails validation under another
\* secret with a signature error and the middleware answers INVALID_TOKEN,
\* also when the token is past its expiry; under K1 from its expiry time on
\* it fails with the expiry error and the middleware answers EXPIRED_TOKEN;
\* in neither case does the request pass.
C8_KeyAndExpiryClassified ==
    /\ \A t \in issued :
          /\ \A k \in Secrets \ {JWTSecret} :
                ValidateToken(t, k).err
                   = ErrTokenSignatureInvalid \o ": " \o ErrSignatureInvalid
          /\ now >= ClaimsOf(t).ExpiresAt
                => ValidateToken(t, JWTSecret).err
                      = ErrTokenInvalidClaims \o ": " \o ErrTokenExpired
    /\ (resp.handler = "AuthMiddleware"
          /\ \E t \in issued : resp.req.hdr = BearerHeader(t)) =>
          LET t == CHOOSE t \in issued : resp.req.hdr = BearerHeader(t)
          IN  /\ resp.req.secret # JWTSecret
                    => (resp.r = InvalidToken /\ ~resp.req.next)
              /\ (resp.req.secret = JWTSecret /\ resp.req.at >= ClaimsOf(t).ExpiresAt)
                    => (resp.r = ExpiredToken /\ ~resp.req.next)

\* A token generated at login was presented under K1 after its expiry time.
C8_Witness ==
    /\ resp.handler = "AuthMiddleware"
    /\ resp.req.secret = JWTSecret
    /\ \E t \in issued :
          /\ resp.req.hdr = BearerHeader(t)
          /\ resp.req.at >= ClaimsOf(t).ExpiresAt
    /\ resp.r = ExpiredToken

\* A well-formed token: complete header and claims and a signature.
IsToken(tok) ==
    /\ Len(tok) = 5
    /\ tok[1] = JSONSegment(HeaderHS256, TRUE)
    /\ tok[2] = Dot
    /\ tok[3].kind = "json" /\ tok[3].complete
    /\ tok[4] = Dot
    /\ tok[5].kind = "mac"

\* C9 as stated: the middleware aborts with 401 UNAUTHORIZED when the header
\* is missing, INVALID_TOKEN when the header is not "Bearer <token>" or the
\* token is malformed or wrongly signed, EXPIRED_TOKEN when the token is
\* expired, and otherwise sets the three context keys and calls the next
\* handler.
C9_AbortCodeByCause ==
    resp.handler = "AuthMiddleware" =>
       LET h == resp.req.hdr
           parts == Split(h, Space)
           bearer == Len(parts) = 2 /\ parts[1] = <<Text("Bearer")>>
           tok == parts[2]
           sound == /\ IsToken(tok)
                    /\ tok[5] = HS256(SubSeq(tok, 1, 3), resp.req.secret)
           expired == resp.req.at >= ClaimsOf(tok).ExpiresAt
       IN  /\ h = <<>> => (resp.r = Unauthorized /\ ~resp.req.next)
           /\ (h # <<>> /\ ~bearer) => (resp.r = InvalidToken /\ ~resp.req.next)
           /\ (bearer /\ ~sound) => (resp.r = InvalidToken /\ ~resp.req.next)
           /\ (bearer /\ sound /\ expired) => (resp.r = ExpiredToken /\ ~resp.req.next)
           /\ (bearer /\ sound /\ ~expired) =>
                 /\ resp.req.next
                 /\ resp.req.keys = [set |-> TRUE,
                                     user_id |-> ClaimsOf(tok).UserID,
                                     user_email |-> ClaimsOf(tok).Email,
                                     user_role |-> ClaimsOf(tok).Role]
           /\ ~resp.req.next => resp.r.status = 401

UserRoutes == {"ListUsers", "CreateUser", "DeleteUser", "UpdateUser"}

\* C10: behind a passed AuthMiddleware the handler of a user route runs
\* exactly when the role in the context literally is an allowed role of
\* the route (Admin for GET /users, POST /users and DELETE /users/:id,
\* Super Admin for PUT /users/:id); otherwise the request is answered 403
\* FORBIDDEN.  A Super Admin is refused on the Admin routes and an Admin on
\* PUT /users/:id.
C10_RoleGateLiteral ==
    (resp.handler \in UserRoutes /\ resp.req.keys.set) =>
       LET allowed == IF resp.handler = "UpdateUser"
                      THEN {"Super Admin"}
                      ELSE {"Admin"}
       IN  /\ resp.req.ran <=> resp.req.keys.user_role \in allowed
           /\ ~resp.req.ran => (resp.r = Forbidden /\ resp.r.status = 403)

\* A Super Admin was refused on DELETE /users/:id.
C10_Witness ==
    /\ resp.handler = "DeleteUser"
    /\ resp.req.keys.set
    /\ resp.req.keys.user_role = "Super Admin"
    /\ ~resp.req.ran
    /\ resp.r = Forbidden

\* An Admin was refused on PUT /users/:id.
C10_WitnessAdmin ==
    /\ resp.handler = "UpdateUser"
    /\ resp.req.keys.set
    /\ resp.req.keys.user_role = "Admin"
    /\ ~resp.req.ran
    /\ resp.r = Forbidden

\* Stored users that carry the verification token.
TokenHolders(token) == {id \in DOMAIN users : users[id].EmailVerificationToken = token}

C25_WitnessAlreadyActive ==
    /\ resp.handler = "VerifyEmailHandler"
    /\ resp.r.success
    /\ resp.req.before.Status = StatusActive
    /\ TokenHolders(resp.req.token) # {}

\* The handlers of the user and auth routes.
UserHandlers ==
    {"RegisterHandler", "VerifyEmailHandler", "Login", "ListUsers", "CreateUser",
     "UpdateUser", "ChangePassword", "ChangeUserPassword"}

\* The user objects an answer carries: the elements of ListUsers' list, the
\* User field of a TokenResponse, or the data itself.
ResponseUsers(e) ==
    IF e.handler \notin UserHandlers \/ ~e.r.success THEN {}
    ELSE IF e.handler = "ListUsers"
    THEN {e.r.data[i] : i \in DOMAIN e.r.data}
    ELSE IF "User" \in DOMAIN e.r.data THEN {e.r.data.User}
    ELSE IF "Password" \in DOMAIN e.r.data THEN {e.r.data}
    ELSE {}

\* The handlers that clear the verification token before answering.
TokenClearingHandlers ==
    {"RegisterHandler", "VerifyEmailHandler", "CreateUser", "ChangePassword",
     "ChangeUserPassword"}

\* C30 as stated: no answer of a user or auth handler carries a non-empty
\* password hash or a non-empty email verification token of any user.
C30_NoHashNoVerificationToken ==
    \A u \in ResponseUsers(resp) :
       /\ u.Password = ""
       /\ u.EmailVerificationToken = ""

\* C30, amended: no answer of a user or auth handler carries a non-empty
\* password hash; the answers of RegisterHandler, VerifyEmailHandler,
\* CreateUser, ChangePassword and ChangeUserPassword carry an empty
\* verification token as well, while Login, ListUsers and UpdateUser hand
\* out every user with the verification token the store holds for it.
C30_NoHashTokenWhereCleared ==
    \A u \in ResponseUsers(resp) :
       /\ u.Password = ""
       /\ resp.handler \in TokenClearingHandlers => u.EmailVerificationToken = ""
       /\ resp.handler \in {"ListUsers", "UpdateUser", "Login"} =>
             /\ u.ID \in DOMAIN users
             /\ u.EmailVerificationToken = users[u.ID].EmailVerificationToken

\* A password change answered with a user whose stored hash and stored
\* verification token are both non-empty, and the answer carries neither.
C30_Witness ==
    /\ resp.handler \in {"ChangePassword", "ChangeUserPassword"}
    /\ \E u \in ResponseUsers(resp) :
          /\ u.ID \in DOMAIN users
          /\ users[u.ID].Password # ""
          /\ users[u.ID].EmailVerificationToken # ""
          /\ u.Password = ""
          /\ u.EmailVerificationToken = ""

\* ListUsers answered with a Pending user and its verification token.
C30_WitnessTokenListed ==
    /\ resp.handler = "ListUsers"
    /\ \E u \in ResponseUsers(resp) :
          /\ u.Status = StatusPending
          /\ u.EmailVerificationToken # ""
          /\ u.Password = ""

\* The exchange answered with a signed access token.
CarriesToken(e) ==
    /\ e.handler # "ListUsers"
    /\ e.r.success
    /\ "AccessToken" \in DOMAIN e.r.data

\* The conditions under which Login hands out a token: the user was found,
\* is Active and the password matches the stored hash; the token is the one
\* signed for that user.
LoginIssued(e) ==
    /\ e.handler = "Login"
    /\ "stage" \notin DOMAIN e.req
    /\ e.req.found
    /\ e.req.user.Status = StatusActive
    /\ CheckPassword(e.req.user.Password, e.req.body.Password)
    /\ e.r.data.AccessToken = GenerateToken(e.req.user, JWTSecret, tokenExpiry)

\* C27 as stated: an answer carries an access token only when it is Login's
\* and the user was found, Active, and the password matched; no answer of
\* RegisterHandler carries one; every token a client holds names a user
\* that was Active when it was issued.
C27_TokenOnlyFromLogin ==
    /\ CarriesToken(resp) => LoginIssued(resp)
    /\ resp.handler = "RegisterHandler" => ~CarriesToken(resp)

\* The earlier Login hands out a token when the user was found and the
\* password matches, whatever the account's status.
EarlierLoginIssued(e) ==
    /\ e.handler = "Login"
    /\ "stage" \in DOMAIN e.req
    /\ e.req.found
    /\ CheckPassword(e.req.user.Password, e.req.body.Password)
    /\ e.r.data.AccessToken = GenerateToken(e.req.user, JWTSecret, tokenExpiry)

\* C27, amended: an answer carries an access token only when it is Login's
\* and the user was found, Active (the earlier Login: of any status) and the
\* password matched, or when it is the answer 201 of the earlier
\* RegisterHandler, which signs a token for the account it has just stored
\* (an account without a status).  The RegisterHandler that stores a Pending
\* account with a verification token never answers with an access token.
C27_TokenFromLoginOrAutoLogin ==
    /\ CarriesToken(resp) =>
          \/ LoginIssued(resp)
          \/ EarlierLoginIssued(resp)
          \/ /\ resp.handler = "RegisterHandler"
             /\ resp.req.stage = "autologin"
             /\ resp.r.status = 201
             /\ ~resp.req.existed
             /\ resp.r.data.User.Status = ""
             /\ resp.r.data.User.Email = resp.req.body.Email
    /\ (resp.handler = "RegisterHandler" /\ resp.req.stage # "autologin") =>
          ~CarriesToken(resp)
    /\ (resp.handler = "Login" /\ "stage" \notin DOMAIN resp.req
          /\ ~resp.r.success) =>
          ~(/\ resp.req.found
            /\ resp.req.user.Status = StatusActive
            /\ CheckPassword(resp.req.user.Password, resp.req.body.Password))

\* Login refused a disabled account that sent the right password, and no
\* token was handed out.
C27_Witness ==
    /\ resp.handler = "Login"
    /\ resp.req.found
    /\ resp.req.user.Status = StatusDisabled
    /\ CheckPassword(resp.req.user.Password, resp.req.body.Password)
    /\ resp.r = Forbidden

\* The earlier RegisterHandler answered a registration with a token.
C27_WitnessAutoLogin ==
    /\ resp.handler = "RegisterHandler"
    /\ resp.req.stage = "autologin"
    /\ CarriesToken(resp)

(***************************************************************************)
(* In-memory location store (InMemoryRepository)                           *)
(***************************************************************************)
Location(id, name, slugValue) == [ID |-> id, Name |-> name, Slug |-> slugValue]

NoLocation == Location("", "", "")

NoLocations == [id \in {} |-> NoLocation]

\* Byte order of the characters that occur in ids of the in-memory store.
IDBytes == "0123456789x"

ByteRank(c) == CHOOSE d \in 1..Len(IDBytes) : CharAt(IDBytes, d) = c

\* Go's < on strings.
RECURSIVE IDLess(_, _)
IDLess(a, b) ==
    IF b = "" THEN FALSE
    ELSE IF a = "" THEN TRUE
    ELSE IF CharAt(a, 1) = CharAt(b, 1)
         THEN IDLess(SubSeq(a, 2, Len(a)), SubSeq(b, 2, Len(b)))
         ELSE ByteRank(CharAt(a, 1)) < ByteRank(CharAt(b, 1))

RECURSIVE SortLocations(_)
SortLocations(ls) ==
    IF ls = {} THEN <<>>
    ELSE LET first == CHOOSE l \in ls : \A m \in ls \ {l} : IDLess(l.ID, m.ID)
         IN  <<first>> \o SortLocations(ls \ {first})

\* sync.RWMutex, zero value: no writer and no readers.
Unlocked == [writer |-> "", readers |-> {}]

\* NewInMemoryRepository of the location package: later seed entries
\* overwrite earlier ones with the same id; the counter starts after the
\* largest id that strconv.Atoi accepts.
RECURSIVE SeedData(_, _)
SeedData(seed, acc) ==
    IF seed = <<>> THEN acc
    ELSE LET l == Head(seed)
         IN  SeedData(Tail(seed),
                [id \in DOMAIN acc \cup {l.ID} |-> IF id = l.ID THEN l ELSE acc[id]])

RECURSIVE SeedMaxID(_, _)
SeedMaxID(seed, maxID) ==
    IF seed = <<>> THEN maxID
    ELSE LET l == Head(seed)
         IN  IF IsNumber(l.ID) /\ Atoi(l.ID) > maxID
             THEN SeedMaxID(Tail(seed), Atoi(l.ID))
             ELSE SeedMaxID(Tail(seed), maxID)

\* Variant whose counter always starts at 1.
MemNew_fromOne(seed) ==
    [data |-> SeedData(seed, NoLocations), nextID |-> 1]

MemNew(seed) ==
    [data |-> SeedData(seed, NoLocations), nextID |-> SeedMaxID(seed, 0) + 1]

\* InMemoryRepository.List
MemList == SortLocations({locData[id] : id \in DOMAIN locData})

\* InMemoryRepository.Get
MemGet(id) ==
    IF id \in DOMAIN locData
    THEN [ok |-> TRUE, location |-> locData[id]]
    ELSE [ok |-> FALSE, location |-> NoLocation]

\* Variant that refuses a location whose slug an entry already carries.
MemCreate_unique(location) ==
    IF \E id \in DOMAIN locData : locData[id].Slug = location.Slug
    THEN [err |-> "slug already exists", created |-> NoLocation,
          nextID |-> locNextID, data |-> locData]
    ELSE LET created == [location EXCEPT !.ID = Itoa(locNextID)]
         IN  [err |-> "",
              created |-> created,
              nextID |-> locNextID + 1,
              data |-> [id \in DOMAIN locData \cup {created.ID} |->
                           IF id = created.ID THEN created ELSE locData[id]]]

\* InMemoryRepository.Create
MemCreate(location) ==
    LET created == [location EXCEPT !.ID = Itoa(locNextID)]
    IN  [err |-> "",
         created |-> created,
         nextID |-> locNextID + 1,
         data |-> [id \in DOMAIN locData \cup {created.ID} |->
                      IF id = created.ID THEN created ELSE locData[id]]]

\* Variant that stores the location under the id when the id is absent.
MemUpdate_upsert(id, location) ==
    LET updated == [location EXCEPT !.ID = id]
    IN  [ok |-> id \in DOMAIN locData, location |-> updated,
         data |-> [x \in DOMAIN locData \cup {id} |->
                      IF x = id THEN updated ELSE locData[x]]]

\* InMemoryRepository.Update
MemUpdate(id, location) ==
    IF id \notin DOMAIN locData
    THEN [ok |-> FALSE, location |-> NoLocation, data |-> locData]
    ELSE LET updated == [location EXCEPT !.ID = id]
         IN  [ok |-> TRUE, location |-> updated,
              data |-> [locData EXCEPT ![id] = updated]]

\* InMemoryRepository.Delete
MemDelete(id) ==
    IF id \notin DOMAIN locData
    THEN [ok |-> FALSE, data |-> locData]
    ELSE [ok |-> TRUE, data |-> [x \in DOMAIN locData \ {id} |-> locData[x]]]

\* Ids the range loop of InMemoryRepository.DeleteBySlug can stop at: Go
\* iterates a map in an unspecified order, so any entry with the slug.
MemTargets(slugValue) == {id \in DOMAIN locData : locData[id].Slug = slugValue}

\* InMemoryRepository.DeleteBySlug with the entry the loop stopped at
\* ("" when no entry has the slug).
MemDeleteBySlug(slugValue, targetID) ==
    IF targetID = ""
    THEN [ok |-> FALSE, data |-> locData]
    ELSE [ok |-> TRUE,
          data |-> [x \in DOMAIN locData \ {targetID} |-> locData[x]]]

(***************************************************************************)
(* The three location Repository variants: the remote table alone, the     *)
(* in-memory store alone, and the in-memory store mirrored to the remote   *)
(* table.                                                                  *)
(***************************************************************************)
RepoKinds == {"remote", "memory", "mirror"}

RemoteSlugIDs(slugValue) ==
    {airtableLoc[i].id : i \in {j \in 1..Len(airtableLoc) :
        getStringField(airtableLoc[j].fields, FieldSlug) = slugValue}}

RemoteWithout(ids) ==
    SelectSeq2(airtableLoc, {airtableLoc[i].id : i \in 1..Len(airtableLoc)} \ ids)

\* Variant that degrades to the empty list when the remote call fails.
MirrorList_degradeToEmpty(listOk) ==
    LET locations == [i \in 1..Len(airtableLoc) |-> mapAirtableRecord(airtableLoc[i])]
    IN  IF ~listOk THEN <<>>
        ELSE IF Len(locations) = 0 THEN MemList
        ELSE locations

\* AirtableRepository.List over the in-memory store: the local listing
\* stands in when the remote call fails or yields no location.
MirrorList(listOk) ==
    LET locations == [i \in 1..Len(airtableLoc) |-> mapAirtableRecord(airtableLoc[i])]
    IN  IF ~listOk THEN MemList
        ELSE IF Len(locations) = 0 THEN MemList
        ELSE locations

\* Variant that undoes the local write when the remote write fails.
MirrorCreate_rollback(location, createOk) ==
    LET local == MemCreate(location)
    IN  IF ~createOk
        THEN [err |-> "failed to create location in Airtable",
              created |-> NoLocation,
              data |-> locData, nextID |-> local.nextID, table |-> airtableLoc]
        ELSE [err |-> "",
              created |-> [local.created EXCEPT !.ID = RecordID(recSeq + 1)],
              data |-> local.data, nextID |-> local.nextID,
              table |-> Append(airtableLoc,
                           [id |-> RecordID(recSeq + 1),
                            fields |-> ToAirtableFieldsForCreate(local.created)])]

\* AirtableRepository.Create over the in-memory store: the local write comes
\* first and stays whatever the remote write does.
MirrorCreate(location, createOk) ==
    LET local == MemCreate(location)
    IN  IF ~createOk
        THEN [err |-> "",
              created |-> local.created,
              data |-> local.data, nextID |-> local.nextID, table |-> airtableLoc]
        ELSE [err |-> "",
              created |-> [local.created EXCEPT !.ID = RecordID(recSeq + 1)],
              data |-> local.data, nextID |-> local.nextID,
              table |-> Append(airtableLoc,
                           [id |-> RecordID(recSeq + 1),
                            fields |-> ToAirtableFieldsForCreate(local.created)])]

\* Variant that reports success when no remote record has the slug.
RemoteDeleteBySlug_okOnNone(slugValue, listOk, deleteOk) ==
    LET ids == RemoteSlugIDs(slugValue)
    IN  IF ~listOk
        THEN [ok |-> FALSE, table |-> airtableLoc, calls |-> <<>>]
        ELSE IF ids = {}
        THEN [ok |-> TRUE, table |-> airtableLoc, calls |-> <<>>]
        ELSE IF ~deleteOk
        THEN [ok |-> FALSE, table |-> airtableLoc, calls |-> <<ids>>]
        ELSE [ok |-> TRUE, table |-> RemoteWithout(ids), calls |-> <<ids>>]

\* AirtableRepository.DeleteBySlug of the remote-only repository.  calls
\* lists the id sets of the BulkDeleteRecords calls it issued.
RemoteDeleteBySlug(slugValue, listOk, deleteOk) ==
    LET ids == RemoteSlugIDs(slugValue)
    IN  IF ~listOk
        THEN [ok |-> FALSE, table |-> airtableLoc, calls |-> <<>>]
        ELSE IF ids = {}
        THEN [ok |-> FALSE, table |-> airtableLoc, calls |-> <<>>]
        ELSE IF ~deleteOk
        THEN [ok |-> FALSE, table |-> airtableLoc, calls |-> <<ids>>]
        ELSE [ok |-> TRUE, table |-> RemoteWithout(ids), calls |-> <<ids>>]

\* AirtableRepository.DeleteBySlug over the in-memory store.
MirrorDeleteBySlug(slugValue, targetID, listOk, deleteOk) ==
    LET local == MemDeleteBySlug(slugValue, targetID)
        deleted == local.ok
        ids == RemoteSlugIDs(slugValue)
    IN  IF ~listOk
        THEN [ok |-> deleted, data |-> local.data, table |-> airtableLoc,
              calls |-> <<>>]
        ELSE IF ids = {}
        THEN [ok |-> deleted, data |-> local.data, table |-> airtableLoc,
              calls |-> <<>>]
        ELSE [ok |-> deleted \/ Cardinality(ids) > 0,
              data |-> local.data,
              table |-> IF deleteOk THEN RemoteWithout(ids) ELSE airtableLoc,
              calls |-> <<ids>>]

(***************************************************************************)
(* Calls on the constructed Repository                                     *)
(***************************************************************************)
\* Seed lists handed to NewInMemoryRepository: none, the two seeded
\* locations of the server, and one with a non-numeric id and a slug that
\* occurs twice.
LocationSeeds ==
    { <<>>,
      <<Location("1", "A b", "a-b"), Location("2", "B", "b")>>,
      <<Location("x", "A b", "a-b"), Location("2", "A b", "a-b")>> }

\* Largest id the in-memory location store hands out.
MaxLocalID == 3

RepoLocations == {Location("", "A b", "a-b"), Location("", "B", "b")}

RepoSlugs == {"a-b", "b"}

RepoIDParams == {"1", "2", "x", "9"}

\* Field maps of rows somebody wrote into the remote table by hand: the slug
\* missing, and the name not a string.
ForeignFields ==
    { [Name |-> Str("C")],
      [Name |-> [t |-> "number", v |-> "7"], Slug |-> Str("b")] }

\* main: NewAirtableRepository(client, table), NewInMemoryRepository(seed),
\* or NewAirtableRepository(NewInMemoryRepository(seed), client, table).
NewRepository(kind, seed) ==
    /\ repoKind = "none"
    /\ kind = "remote" => seed = <<>>
    /\ repoKind' = kind
    /\ locData' = IF kind = "remote" THEN locData ELSE MemNew(seed).data
    /\ locNextID' = IF kind = "remote" THEN locNextID ELSE MemNew(seed).nextID
    /\ resp' = Exchange("NewRepository", [kind |-> kind, seed |-> seed],
                        [nextID |-> locNextID'])
    /\ UNCHANGED <<mu, locCall, airtableUsers>>
    /\ UNCHANGED locVars
    /\ UNCHANGED userVars

\* What an exchange records of a repository call: the variant and both
\* stores as the call found them.
RepoCall(args) ==
    [kind |-> repoKind, args |-> args, local |-> locData, nextID |-> locNextID,
     remote |-> airtableLoc]

\* Repository.List
RepositoryList(listOk) ==
    /\ repoKind \in RepoKinds
    /\ repoKind = "memory" => listOk
    /\ resp' = Exchange("List", RepoCall([listOk |-> listOk]),
                  [locations |-> CASE repoKind = "remote" -> RepoList(listOk)
                                   [] repoKind = "memory" -> MemList
                                   [] repoKind = "mirror" -> MirrorList(listOk)])
    /\ UNCHANGED locVars
    /\ UNCHANGED userVars
    /\ UNCHANGED memVars

\* Repository.Create
RepositoryCreate(location, createOk) ==
    /\ repoKind \in RepoKinds
    /\ repoKind = "memory" => createOk
    /\ repoKind # "remote" => locNextID <= MaxLocalID
    /\ (repoKind # "memory" /\ createOk) => recSeq < MaxRecords
    /\ LET remote == RepoCreate(location, createOk)
           local == MemCreate(location)
           mirror == MirrorCreate(location, createOk)
           req == RepoCall([location |-> location, createOk |-> createOk])
       IN  CASE repoKind = "remote" ->
                  /\ airtableLoc' = remote.table
                  /\ recSeq' = IF remote.ok THEN recSeq + 1 ELSE recSeq
                  /\ resp' = Exchange("Create", req,
                               IF remote.ok
                               THEN [err |-> "", created |-> remote.created]
                               ELSE [err |-> "failed to create location in Airtable",
                                     created |-> NoLocation])
                  /\ UNCHANGED <<locData, locNextID>>
             [] repoKind = "memory" ->
                  /\ locData' = local.data
                  /\ locNextID' = local.nextID
                  /\ resp' = Exchange("Create", req,
                               [err |-> local.err, created |-> local.created])
                  /\ UNCHANGED <<airtableLoc, recSeq>>
             [] repoKind = "mirror" ->
                  /\ locData' = mirror.data
                  /\ locNextID' = mirror.nextID
                  /\ airtableLoc' = mirror.table
                  /\ recSeq' = IF createOk THEN recSeq + 1 ELSE recSeq
                  /\ resp' = Exchange("Create", req,
                               [err |-> mirror.err, created |-> mirror.created])
    /\ UNCHANGED <<repoKind, locReq, mu, locCall, airtableUsers>>
    /\ UNCHANGED userVars

\* Repository.DeleteBySlug as Handler.DeleteLocationBySlug calls it with a
\* normalised slug, and the answer the handler gives for its result.
RepositoryDeleteBySlug(slugValue, listOk, deleteOk) ==
    /\ repoKind \in RepoKinds
    /\ repoKind = "memory" => (listOk /\ deleteOk)
    /\ \E targetID \in IF MemTargets(slugValue) = {} THEN {""}
                       ELSE MemTargets(slugValue) :
          LET remote == RemoteDeleteBySlug(slugValue, listOk, deleteOk)
              local == MemDeleteBySlug(slugValue, targetID)
              mirror == MirrorDeleteBySlug(slugValue, targetID, listOk, deleteOk)
              res == CASE repoKind = "remote" ->
                            [ok |-> remote.ok, data |-> locData,
                             table |-> remote.table, calls |-> remote.calls]
                       [] repoKind = "memory" ->
                            [ok |-> local.ok, data |-> local.data,
                             table |-> airtableLoc, calls |-> <<>>]
                       [] repoKind = "mirror" -> mirror
              req == RepoCall([slug |-> slugValue, listOk |-> listOk,
                               deleteOk |-> deleteOk, calls |-> res.calls,
                               returned |-> res.ok])
          IN  /\ locData' = res.data
              /\ airtableLoc' = res.table
              /\ resp' = Exchange("DeleteBySlug", req,
                            IF res.ok THEN Success(200, NoData) ELSE NotFound)
    /\ UNCHANGED <<repoKind, locNextID, recSeq, locReq, mu, locCall, airtableUsers>>
    /\ UNCHANGED userVars

\* InMemoryRepository.Update
RepositoryUpdate(id, location) ==
    /\ repoKind = "memory"
    /\ locData' = MemUpdate(id, location).data
    /\ resp' = Exchange("Update", RepoCall([id |-> id, location |-> location]),
                  [ok |-> MemUpdate(id, location).ok,
                   location |-> MemUpdate(id, location).location])
    /\ UNCHANGED <<repoKind, locNextID, mu, locCall, airtableUsers>>
    /\ UNCHANGED locVars
    /\ UNCHANGED userVars

\* InMemoryRepository.Delete
RepositoryDelete(id) ==
    /\ repoKind = "memory"
    /\ locData' = MemDelete(id).data
    /\ resp' = Exchange("Delete", RepoCall([id |-> id]), [ok |-> MemDelete(id).ok])
    /\ UNCHANGED <<repoKind, locNextID, mu, locCall, airtableUsers>>
    /\ UNCHANGED locVars
    /\ UNCHANGED userVars

\* Somebody adds a row to the remote table outside the program.
ForeignRow(fields) ==
    /\ repoKind \in {"remote", "mirror"}
    /\ recSeq < MaxRecords
    /\ airtableLoc' = Append(airtableLoc, [id |-> RecordID(recSeq + 1), fields |-> fields])
    /\ recSeq' = recSeq + 1
    /\ resp' = Exchange("ForeignRow", RepoCall([fields |-> fields]), NoData)
    /\ UNCHANGED locReq
    /\ UNCHANGED userVars
    /\ UNCHANGED memVars

\* The slugs of a listing.
ListedSlugs(locations) == {locations[i].Slug : i \in 1..Len(locations)}

\* C28: read-your-writes through the mirroring repository: when Create of
\* the in-memory store mirrored to the remote table has returned an entity
\* with a nil error, the List that follows contains an entity with the
\* created slug, whether the remote create succeeded or failed and whether
\* the remote list returns records, returns none, or fails.
C28_ReadYourWrites ==
    [][(/\ resp'.handler = "Create"
        /\ resp'.req.kind = "mirror"
        /\ resp'.r.err = "")
       => \A listOk \in BOOLEAN :
             resp'.r.created.Slug \in ListedSlugs(MirrorList(listOk)')]_vars

(***************************************************************************)
(* The mirroring repository step by step: every acquisition and release    *)
(* of the in-memory store's lock and every remote call is a step of its    *)
(* own, so that calls of several clients interleave.                       *)
(***************************************************************************)
\* Calls whose first step is a method of the in-memory store under its
\* write lock, with the arguments the clients pass.
LockedCalls ==
    [op : {"Create"}, location : {Location("", "B", "b")}]
       \cup [op : {"DeleteBySlug"}, slug : {"b"}]
       \cup [op : {"Update"}, id : {"1", "9"}, location : {Location("", "B", "b")}]
       \cup [op : {"Delete"}, id : {"1", "9"}]

\* main seeds the in-memory store with two locations.
MirrorSeeds == {<<Location("1", "A b", "a-b"), Location("2", "B", "b")>>}

\* Positions at which a client waits for the remote service.
RemotePCs == {"CreateRecord", "ListRecords", "BulkDeleteRecords"}

InFlight == {c \in Clients : locCall[c].pc \in RemotePCs}

\* r.mu.Lock() at the head of InMemoryRepository.Create, DeleteBySlug, Update
\* and Delete: blocks while the lock has a writer or a reader.
LocalLock(c, call) ==
    /\ repoKind = "mirror"
    /\ locCall[c].pc = "idle"
    /\ call.op = "Create" => locNextID <= MaxLocalID
    /\ mu = Unlocked
    /\ mu' = [mu EXCEPT !.writer = c]
    /\ locCall' = [locCall EXCEPT ![c] =
                      [pc |-> "locked", call |-> call, during |-> InFlight]]
    /\ UNCHANGED <<repoKind, locData, locNextID, resp, airtableUsers>>
    /\ UNCHANGED locVars
    /\ UNCHANGED userVars

\* Variant in which Create keeps the write lock until the process ends.
Unlock_heldAcrossRemote(c, op) ==
    IF op = "Create" THEN mu ELSE [mu EXCEPT !.writer = ""]

\* defer r.mu.Unlock(): the method of the in-memory store returns with the
\* write lock released.
Unlock(c, op) == [mu EXCEPT !.writer = ""]

\* The body of the in-memory method and its deferred r.mu.Unlock(): the
\* store changes and the lock is free when the method returns.  Create and
\* DeleteBySlug of the mirroring repository go on to their remote call,
\* Update and Delete return to the caller.
LocalUnlock(c) ==
    /\ locCall[c].pc = "locked"
    /\ mu.writer = c
    /\ mu' = Unlock(c, locCall[c].call.op)
    /\ LET at == locCall[c]
           call == at.call
           req == [client |-> c, call |-> call, during |-> at.during]
       IN  CASE call.op = "Create" ->
                  LET local == MemCreate(call.location)
                  IN  /\ locData' = local.data
                      /\ locNextID' = local.nextID
                      /\ locCall' = [locCall EXCEPT ![c] =
                            [at EXCEPT !.pc = "CreateRecord"] @@
                            [created |-> local.created]]
                      /\ UNCHANGED resp
             [] call.op = "DeleteBySlug" ->
                  \E targetID \in IF MemTargets(call.slug) = {} THEN {""}
                                  ELSE MemTargets(call.slug) :
                     LET local == MemDeleteBySlug(call.slug, targetID)
                     IN  /\ locData' = local.data
                         /\ locCall' = [locCall EXCEPT ![c] =
                               [at EXCEPT !.pc = "ListRecords"] @@
                               [deleted |-> local.ok]]
                         /\ UNCHANGED <<locNextID, resp>>
             [] call.op = "Update" ->
                  LET local == MemUpdate(call.id, call.location)
                  IN  /\ locData' = local.data
                      /\ locCall' = [locCall EXCEPT ![c] = Idle]
                      /\ resp' = Exchange("Mirror.Update", req,
                                    [ok |-> local.ok, location |-> local.location])
                      /\ UNCHANGED locNextID
             [] call.op = "Delete" ->
                  LET local == MemDelete(call.id)
                  IN  /\ locData' = local.data
                      /\ locCall' = [locCall EXCEPT ![c] = Idle]
                      /\ resp' = Exchange("Mirror.Delete", req, [ok |-> local.ok])
                      /\ UNCHANGED locNextID
    /\ UNCHANGED <<repoKind, airtableUsers>>
    /\ UNCHANGED locVars
    /\ UNCHANGED userVars

\* AirtableRepository.List begins with the remote ListRecords call.
ListStart(c) ==
    /\ repoKind = "mirror"
    /\ locCall[c].pc = "idle"
    /\ locCall' = [locCall EXCEPT ![c] =
                      [pc |-> "ListRecords", call |-> [op |-> "List"],
                       during |-> InFlight]]
    /\ UNCHANGED <<repoKind, locData, locNextID, mu, resp, airtableUsers>>
    /\ UNCHANGED locVars
    /\ UNCHANGED userVars

\* The remote service answers the call the client waits for, with a result
\* or with an error.
RemoteReturn(c, ok) ==
    /\ locCall[c].pc \in RemotePCs
    /\ LET at == locCall[c]
           call == at.call
           req == [client |-> c, call |-> call, during |-> at.during]
       IN  CASE call.op = "Create" ->
                  /\ ok => recSeq < MaxRecords
                  /\ airtableLoc' =
                        IF ok
                        THEN Append(airtableLoc,
                                [id |-> RecordID(recSeq + 1),
                                 fields |-> ToAirtableFieldsForCreate(at.created)])
                        ELSE airtableLoc
                  /\ recSeq' = IF ok THEN recSeq + 1 ELSE recSeq
                  /\ locCall' = [locCall EXCEPT ![c] = Idle]
                  /\ resp' = Exchange("Mirror.Create", req,
                               [err |-> "",
                                created |-> IF ok
                                            THEN [at.created EXCEPT
                                                     !.ID = RecordID(recSeq + 1)]
                                            ELSE at.created])
             [] call.op = "DeleteBySlug" /\ at.pc = "ListRecords" ->
                  LET ids == RemoteSlugIDs(call.slug)
                  IN  IF ~ok \/ ids = {}
                      THEN /\ locCall' = [locCall EXCEPT ![c] = Idle]
                           /\ resp' = Exchange("Mirror.DeleteBySlug", req,
                                         [ok |-> at.deleted])
                           /\ UNCHANGED <<airtableLoc, recSeq>>
                      ELSE /\ locCall' = [locCall EXCEPT ![c] =
                                 [at EXCEPT !.pc = "BulkDeleteRecords"] @@
                                 [ids |-> ids]]
                           /\ UNCHANGED <<airtableLoc, recSeq, resp>>
             [] call.op = "DeleteBySlug" /\ at.pc = "BulkDeleteRecords" ->
                  /\ airtableLoc' = IF ok THEN RemoteWithout(at.ids) ELSE airtableLoc
                  /\ locCall' = [locCall EXCEPT ![c] = Idle]
                  /\ resp' = Exchange("Mirror.DeleteBySlug", req,
                                [ok |-> at.deleted \/ Cardinality(at.ids) > 0])
                  /\ UNCHANGED recSeq
             [] call.op = "List" ->
                  LET locations == [i \in 1..Len(airtableLoc) |->
                                       mapAirtableRecord(airtableLoc[i])]
                  IN  IF ok /\ Len(locations) > 0
                      THEN /\ locCall' = [locCall EXCEPT ![c] = Idle]
                           /\ resp' = Exchange("Mirror.List", req,
                                         [locations |-> locations])
                           /\ UNCHANGED <<airtableLoc, recSeq>>
                      ELSE /\ locCall' = [locCall EXCEPT ![c] =
                                 [at EXCEPT !.pc = "RLock"]]
                           /\ UNCHANGED <<airtableLoc, recSeq, resp>>
    /\ UNCHANGED <<repoKind, locData, locNextID, mu, locReq, airtableUsers>>
    /\ UNCHANGED userVars

\* r.mu.RLock() at the head of InMemoryRepository.List: blocks while the
\* lock has a writer.
ListRLock(c) ==
    /\ locCall[c].pc = "RLock"
    /\ mu.writer = ""
    /\ mu' = [mu EXCEPT !.readers = @ \cup {c}]
    /\ locCall' = [locCall EXCEPT ![c] = [@ EXCEPT !.pc = "rlocked"]]
    /\ UNCHANGED <<repoKind, locData, locNextID, resp, airtableUsers>>
    /\ UNCHANGED locVars
    /\ UNCHANGED userVars

\* The body of InMemoryRepository.List and its deferred r.mu.RUnlock().
ListRUnlock(c) ==
    /\ locCall[c].pc = "rlocked"
    /\ mu' = [mu EXCEPT !.readers = @ \ {c}]
    /\ locCall' = [locCall EXCEPT ![c] = Idle]
    /\ LET at == locCall[c]
       IN  resp' = Exchange("Mirror.List",
                      [client |-> c, call |-> at.call, during |-> at.during],
                      [locations |-> MemList])
    /\ UNCHANGED <<repoKind, locData, locNextID, airtableUsers>>
    /\ UNCHANGED locVars
    /\ UNCHANGED userVars

\* Clients that hold the lock of the in-memory store.
Holders == (IF mu.writer = "" THEN {} ELSE {mu.writer}) \cup mu.readers

\* C22: no client holds the lock of the in-memory store while it waits for
\* CreateRecord, ListRecords or BulkDeleteRecords; whoever holds the lock
\* is inside a method of the in-memory store.  So while remote calls are in
\* flight and no local method is running, the lock is free and the lock
\* step of any other client's Create, Update, Delete or DeleteBySlug and
\* of a List can be taken.
C22_NoLockAcrossRemoteCall ==
    /\ \A c \in InFlight : c \notin Holders
    /\ \A c \in Holders : locCall[c].pc \in {"locked", "rlocked"}
    /\ \A c \in Clients :
          (/\ InFlight # {}
           /\ \A d \in Clients : locCall[d].pc \notin {"locked", "rlocked"}
           /\ repoKind = "mirror"
           /\ locCall[c].pc = "idle") =>
             /\ ENABLED LocalLock(c, [op |-> "Delete", id |-> "1"])
             /\ ENABLED LocalLock(c, [op |-> "DeleteBySlug", slug |-> "b"])
             /\ ENABLED ListStart(c)
    /\ \A c \in Clients :
          (locCall[c].pc = "RLock" /\ mu.writer = "") => ENABLED ListRLock(c)

\* While the CreateRecord call of one client was in flight, another client
\* started and finished an Update of the in-memory store, and the remote
\* call is still waiting.
C22_Witness ==
    /\ resp.handler = "Mirror.Update"
    /\ resp.req.client = "c2"
    /\ "c1" \in resp.req.during
    /\ resp.r.ok
    /\ locCall["c1"].pc = "CreateRecord"
    /\ mu = Unlocked

(***************************************************************************)
(* Properties of the location Repository variants                          *)
(***************************************************************************)
\* A store of the variant that served the call held a record with the slug
\* when the call began.
SlugExisted(req) ==
    \/ /\ req.kind \in {"memory", "mirror"}
       /\ \E id \in DOMAIN req.local : req.local[id].Slug = req.args.slug
    \/ /\ req.kind \in {"remote", "mirror"}
       /\ \E i \in 1..Len(req.remote) :
             getStringField(req.remote[i].fields, FieldSlug) = req.args.slug

\* C12 as stated: whenever DeleteBySlug(s) is called while a record with
\* slug s exists and the very next call is DeleteBySlug(s) again, the first
\* call returned true and the second returns false, in every Repository
\* variant, also with several records sharing s and with a failing remote
\* bulk delete.
C12_DeleteTwiceTrueThenFalse ==
    [][(/\ resp.handler = "DeleteBySlug"
        /\ SlugExisted(resp.req)
        /\ resp'.handler = "DeleteBySlug"
        /\ resp'.req.args.slug = resp.req.args.slug)
        => (resp.req.args.returned /\ ~resp'.req.args.returned)]_vars

\* Ids of the remote records that carried the slug when the call began.
MatchedIDs(req) ==
    {req.remote[i].id : i \in {j \in 1..Len(req.remote) :
        getStringField(req.remote[j].fields, FieldSlug) = req.args.slug}}

LocalHadSlug(req) == \E id \in DOMAIN req.local : req.local[id].Slug = req.args.slug

\* C13 as stated: DeleteBySlug of a repository backed by the remote table
\* lists the remote records with the slug and issues one BulkDelete for all
\* their ids; with zero remote matches it issues no delete call and returns
\* false, and the handler answers 404.
C13_ZeroRemoteMatchesIsNotFound ==
    (resp.handler = "DeleteBySlug" /\ resp.req.kind \in {"remote", "mirror"}
       /\ resp.req.args.listOk) =>
       /\ MatchedIDs(resp.req) # {} => resp.req.args.calls = <<MatchedIDs(resp.req)>>
       /\ MatchedIDs(resp.req) = {} =>
             /\ resp.req.args.calls = <<>>
             /\ ~resp.req.args.returned
             /\ resp.r = NotFound

\* C13, amended: with matching remote records both remote-backed variants
\* issue exactly one BulkDelete for all their ids; with zero remote matches
\* they issue no delete call, the remote-only repository returns false and
\* the mirroring repository returns whether it deleted a local record; the
\* handler answers 404 exactly when the repository returned false.
C13_ZeroRemoteMatchesReturnsLocalResult ==
    (resp.handler = "DeleteBySlug" /\ resp.req.kind \in {"remote", "mirror"}) =>
       /\ resp.req.args.listOk =>
             /\ MatchedIDs(resp.req) # {} =>
                   resp.req.args.calls = <<MatchedIDs(resp.req)>>
             /\ MatchedIDs(resp.req) = {} =>
                   /\ resp.req.args.calls = <<>>
                   /\ resp.req.remote = airtableLoc
                   /\ resp.req.args.returned
                         = (resp.req.kind = "mirror" /\ LocalHadSlug(resp.req))
       /\ ~resp.req.args.listOk => resp.req.args.calls = <<>>
       /\ resp.r = (IF resp.req.args.returned THEN Success(200, NoData) ELSE NotFound)
       /\ resp.r = NotFound => resp.r.status = 404

\* The mirroring repository found no remote record with the slug, deleted a
\* local one, and the handler answered 200.
C13_Witness ==
    /\ resp.handler = "DeleteBySlug"
    /\ resp.req.kind = "mirror"
    /\ resp.req.args.listOk
    /\ MatchedIDs(resp.req) = {}
    /\ resp.req.args.calls = <<>>
    /\ LocalHadSlug(resp.req)
    /\ resp.req.args.returned
    /\ resp.r.status = 200

\* The remote-only repository found no record with the slug while other
\* records existed, issued no delete call, and the handler answered 404.
C13_WitnessRemote ==
    /\ resp.handler = "DeleteBySlug"
    /\ resp.req.kind = "remote"
    /\ resp.req.args.listOk
    /\ resp.req.remote # <<>>
    /\ MatchedIDs(resp.req) = {}
    /\ resp.r = NotFound

\* The listing of the in-memory store as the call found it.
LocalListing(req) == SortLocations({req.local[id] : id \in DOMAIN req.local})

\* C14 as stated: when the remote list call fails, List() of a repository
\* backed by the remote table returns the empty collection, whatever the
\* in-memory store holds.
C14_FailedListIsEmpty ==
    (resp.handler = "List" /\ resp.req.kind \in {"remote", "mirror"}
       /\ ~resp.req.args.listOk) =>
       resp.r.locations = <<>>

\* C14, amended: when the remote list call fails, List() of the remote-only
\* repository returns the empty collection and List() of the mirroring
\* repository returns the listing of its in-memory store, which is empty
\* only if that store is; neither reports the failure to the caller.
C14_FailedListFallsBack ==
    (resp.handler = "List" /\ ~resp.req.args.listOk) =>
       /\ DOMAIN resp.r = {"locations"}
       /\ resp.req.kind = "remote" => resp.r.locations = <<>>
       /\ resp.req.kind = "mirror" =>
             /\ resp.r.locations = LocalListing(resp.req)
             /\ (resp.r.locations = <<>>) <=> (DOMAIN resp.req.local = {})

\* The remote list call of the mirroring repository failed while both
\* stores held records, and List() returned the local records.
C14_Witness ==
    /\ resp.handler = "List"
    /\ resp.req.kind = "mirror"
    /\ ~resp.req.args.listOk
    /\ resp.req.remote # <<>>
    /\ DOMAIN resp.req.local # {}
    /\ resp.r.locations # <<>>
    /\ resp.r.locations = LocalListing(resp.req)

\* The remote list call of the remote-only repository failed while the
\* table held records, and List() returned no location.
C14_WitnessRemote ==
    /\ resp.handler = "List"
    /\ resp.req.kind = "remote"
    /\ ~resp.req.args.listOk
    /\ resp.req.remote # <<>>
    /\ resp.r.locations = <<>>

\* C15: when the remote CreateRecord call of the mirroring repository
\* fails, Create returns the locally created entity and no error, the entity
\* is in the local store under the id it was given, and the remote table is
\* as it was, so the local store has gained a record the remote table lacks.
C15_FailedMirrorKeepsLocalWrite ==
    (resp.handler = "Create" /\ resp.req.kind = "mirror"
       /\ ~resp.req.args.createOk) =>
       LET created == resp.r.created
       IN  /\ resp.r.err = ""
           /\ created.ID = Itoa(resp.req.nextID)
           /\ created.Name = resp.req.args.location.Name
           /\ created.Slug = resp.req.args.location.Slug
           /\ created.ID \notin DOMAIN resp.req.local
           /\ created.ID \in DOMAIN locData
           /\ locData[created.ID] = created
           /\ \A id \in DOMAIN resp.req.local : locData[id] = resp.req.local[id]
           /\ airtableLoc = resp.req.remote
           /\ Cardinality(DOMAIN locData) - Len(airtableLoc)
                 = Cardinality(DOMAIN resp.req.local) - Len(resp.req.remote) + 1

\* Both stores held the same single location; a second Create whose remote
\* write failed left a location in the local store whose slug no remote
\* record carries.
C15_Witness ==
    /\ resp.handler = "Create"
    /\ resp.req.kind = "mirror"
    /\ ~resp.req.args.createOk
    /\ resp.r.err = ""
    /\ Len(resp.req.remote) = 1
    /\ Cardinality(DOMAIN resp.req.local) = 1
    /\ \A id \in DOMAIN resp.req.local :
          ToAirtableFieldsForCreate(resp.req.local[id]) = resp.req.remote[1].fields
    /\ resp.r.created.ID \in DOMAIN locData
    /\ RemoteSlugIDs(resp.r.created.Slug) = {}

\* The required fields of a remote location record are present as strings.
WellTyped(record) ==
    \A key \in {FieldName, FieldSlug} :
       key \in DOMAIN record.fields /\ record.fields[key].t = "string"

ListedIDs(r) == {r.locations[i].ID : i \in 1..Len(r.locations)}

\* C18 as stated: List() of a repository that reads the remote table leaves
\* out every record whose name or slug is missing or not a string, and
\* returns every other record of the same remote response.
C18_ListSkipsMalformedRecords ==
    (resp.handler = "List" /\ resp.req.kind \in {"remote", "mirror"}
       /\ resp.req.args.listOk) =>
       \A i \in 1..Len(resp.req.remote) :
          LET record == resp.req.remote[i]
          IN  IF WellTyped(record)
              THEN record.id \in ListedIDs(resp.r)
              ELSE record.id \notin ListedIDs(resp.r)

\* Largest number among the seed ids that are decimal numbers, 0 if none.
MaxNumericID(seed) ==
    LET nums == {Atoi(seed[i].ID) : i \in {j \in DOMAIN seed : IsNumber(seed[j].ID)}}
    IN  IF nums = {} THEN 0 ELSE CHOOSE n \in nums : \A m \in nums : m <= n

\* C20: in the in-memory location store nextID starts one above the largest
\* numeric seed id (non-numeric ids do not count); under every sequence of
\* Create, Update, Delete and DeleteBySlug it never decreases and exceeds
\* the number of every numeric id in the map; every Create returns the id
\* nextID, which no entry carries at that moment, and moves nextID one up,
\* so that no id is handed out twice, deleted or not.
C20_NextIDAboveEveryID ==
    /\ [](\A id \in DOMAIN locData : IsNumber(id) => Atoi(id) < locNextID)
    /\ []((resp.handler = "NewRepository" /\ resp.req.kind # "remote") =>
             resp.r.nextID = MaxNumericID(resp.req.seed) + 1)
    /\ []((resp.handler = "Create" /\ resp.req.kind = "memory") =>
             /\ resp.r.created.ID = Itoa(resp.req.nextID)
             /\ resp.r.created.ID \notin DOMAIN resp.req.local
             /\ \A id \in DOMAIN resp.req.local : locData[id] = resp.req.local[id]
             /\ locNextID = resp.req.nextID + 1)
    /\ [][locNextID' >= locNextID]_vars
    /\ [][(repoKind' = "memory" /\ repoKind = "memory"
              /\ DOMAIN locData' \ DOMAIN locData # {}) =>
              /\ DOMAIN locData' \ DOMAIN locData = {Itoa(locNextID)}
              /\ locNextID' = locNextID + 1]_vars

\* A store whose ids 1 and 2 were all deleted again answered the next
\* Create with the id 3, not with a freed id.
C20_Witness ==
    /\ resp.handler = "Create"
    /\ resp.req.kind = "memory"
    /\ DOMAIN resp.req.local = {}
    /\ resp.req.nextID = 3
    /\ resp.r.created.ID = "3"
    /\ DOMAIN locData = {"3"}

\* Most rows of one slug that accumulate in the remote table.
MaxSlugRows == 11

\* One more row with the slug reaches the remote table: a create that raced
\* past the slug check, or a row written by hand.
SlugRow(slugValue) ==
    /\ repoKind \in {"remote", "mirror"}
    /\ recSeq < MaxSlugRows
    /\ airtableLoc' = Append(airtableLoc,
                         [id |-> RecordID(recSeq + 1),
                          fields |-> ToAirtableFieldsForCreate(
                                        Location("", "B", slugValue))])
    /\ recSeq' = recSeq + 1
    /\ resp' = Exchange("SlugRow", RepoCall([slug |-> slugValue]), NoData)
    /\ UNCHANGED locReq
    /\ UNCHANGED userVars
    /\ UNCHANGED memVars

\* BulkDeleteRecords takes up to 10 ids at a time.
BulkDeleteLimit == 10

\* C24: every BulkDeleteRecords call that DeleteBySlug issues carries at
\* most 10 record ids.
C24_BulkDeleteAtMostTen ==
    resp.handler = "DeleteBySlug" =>
       \A i \in DOMAIN resp.req.args.calls :
          Cardinality(resp.req.args.calls[i]) <= BulkDeleteLimit

(***************************************************************************)
(* The in-memory stores on their own: locations and users                  *)
(***************************************************************************)
\* Users handed to InMemoryRepository.Create of the user package.
StoreUsers ==
    { User("", email, HashPassword("secret1"), RoleUser, StatusPending, "") :
         email \in {"a@x", "root@x"} }

\* InMemoryRepository.Create of the user package, called directly.
UserStoreCreate(user) ==
    LET res == UserCreate(user)
    IN  /\ res.err = "" => nextID <= MaxUsers
        /\ users' = res.data
        /\ nextID' = res.nextID
        /\ resp' = Exchange("UserCreate",
                       [user |-> user, local |-> users, nextID |-> nextID],
                       [err |-> res.err, created |-> res.user])
        /\ UNCHANGED <<regReq, issued, now>>
        /\ UNCHANGED locVars
        /\ UNCHANGED memVars

\* InMemoryRepository.Delete of the user package, called directly.
UserStoreDelete(id) ==
    /\ users' = UserDelete(id).data
    /\ resp' = Exchange("UserDelete",
                   [id |-> id, local |-> users, nextID |-> nextID],
                   [ok |-> UserDelete(id).ok])
    /\ UNCHANGED <<nextID, regReq, issued, now>>
    /\ UNCHANGED locVars
    /\ UNCHANGED memVars

\* C19 as stated: Create of the in-memory store succeeds for every entity
\* type: it returns no error, gives the entity the id nextID, stores it and
\* increments the counter.
C19_InMemoryCreateAlwaysSucceeds ==
    /\ (resp.handler = "Create" /\ resp.req.kind = "memory") =>
          /\ resp.r.err = ""
          /\ resp.r.created.ID = Itoa(resp.req.nextID)
          /\ locData[resp.r.created.ID] = resp.r.created
          /\ locNextID = resp.req.nextID + 1
    /\ resp.handler = "UserCreate" =>
          /\ resp.r.err = ""
          /\ resp.r.created.ID = Itoa(resp.req.nextID)
          /\ users[resp.r.created.ID] = resp.r.created
          /\ nextID = resp.req.nextID + 1

EmailStored(req) == \E id \in DOMAIN req.local : req.local[id].Email = req.user.Email

\* C19, amended: Create of the in-memory location store always succeeds as
\* stated, also for a slug that an entry already carries.  Create of the
\* in-memory user store does the same when no stored user has the email,
\* and otherwise returns an error and leaves the store and the counter as
\* they were.
C19_InMemoryCreateButDuplicateEmail ==
    /\ (resp.handler = "Create" /\ resp.req.kind = "memory") =>
          /\ resp.r.err = ""
          /\ resp.r.created = [resp.req.args.location EXCEPT !.ID = Itoa(resp.req.nextID)]
          /\ locData[resp.r.created.ID] = resp.r.created
          /\ locNextID = resp.req.nextID + 1
    /\ resp.handler = "UserCreate" =>
          IF EmailStored(resp.req)
          THEN /\ resp.r.err # ""
               /\ resp.r.created = NoUser
               /\ users = resp.req.local
               /\ nextID = resp.req.nextID
          ELSE /\ resp.r.err = ""
               /\ resp.r.created = [resp.req.user EXCEPT !.ID = Itoa(resp.req.nextID)]
               /\ users[resp.r.created.ID] = resp.r.created
               /\ nextID = resp.req.nextID + 1

\* The in-memory user store refused a user whose email a stored user has.
C19_Witness ==
    /\ resp.handler = "UserCreate"
    /\ EmailStored(resp.req)
    /\ resp.r.err # ""
    /\ users = resp.req.local
    /\ nextID = resp.req.nextID

\* The in-memory location store accepted a location whose slug an entry
\* already carried.
C19_WitnessLocation ==
    /\ resp.handler = "Create"
    /\ resp.req.kind = "memory"
    /\ \E id \in DOMAIN resp.req.local :
          resp.req.local[id].Slug = resp.req.args.location.Slug
    /\ resp.r.err = ""
    /\ resp.r.created.ID \in DOMAIN locData

\* C21: in the in-memory stores Update and Delete with an id that is not in
\* the map return false and change neither the map nor nextID; with an id
\* that is in the map they return true, Update replaces that one entry by
\* the given entity under the same id, Delete removes that one entry, every
\* other entry and nextID stay as they were.
C21_UpdateDeleteTouchOnlyTheirEntry ==
    /\ (resp.handler = "Update" /\ resp.req.kind = "memory") =>
          /\ locNextID = resp.req.nextID
          /\ IF resp.req.args.id \in DOMAIN resp.req.local
             THEN /\ resp.r.ok
                  /\ DOMAIN locData = DOMAIN resp.req.local
                  /\ locData[resp.req.args.id] =
                        [resp.req.args.location EXCEPT !.ID = resp.req.args.id]
                  /\ resp.r.location = locData[resp.req.args.id]
                  /\ \A x \in DOMAIN locData \ {resp.req.args.id} :
                        locData[x] = resp.req.local[x]
             ELSE /\ ~resp.r.ok
                  /\ locData = resp.req.local
    /\ (resp.handler = "Delete" /\ resp.req.kind = "memory") =>
          /\ locNextID = resp.req.nextID
          /\ IF resp.req.args.id \in DOMAIN resp.req.local
             THEN /\ resp.r.ok
                  /\ DOMAIN locData = DOMAIN resp.req.local \ {resp.req.args.id}
                  /\ \A x \in DOMAIN locData : locData[x] = resp.req.local[x]
             ELSE /\ ~resp.r.ok
                  /\ locData = resp.req.local
    /\ resp.handler = "UserDelete" =>
          /\ nextID = resp.req.nextID
          /\ IF resp.req.id \in DOMAIN resp.req.local
             THEN /\ resp.r.ok
                  /\ DOMAIN users = DOMAIN resp.req.local \ {resp.req.id}
                  /\ \A x \in DOMAIN users : users[x] = resp.req.local[x]
             ELSE /\ ~resp.r.ok
                  /\ users = resp.req.local

\* Update of one of two stored locations replaced that entry and left the
\* other one alone.
C21_Witness ==
    /\ resp.handler = "Update"
    /\ resp.req.kind = "memory"
    /\ resp.req.args.id \in DOMAIN resp.req.local
    /\ Cardinality(DOMAIN resp.req.local) = 2
    /\ resp.req.local[resp.req.args.id].Slug # resp.req.args.location.Slug
    /\ resp.r.ok
    /\ locData[resp.req.args.id].Slug = resp.req.args.location.Slug

\* Update with an id that no entry of a non-empty store carries returned
\* false.
C21_WitnessAbsent ==
    /\ resp.handler = "Update"
    /\ resp.req.kind = "memory"
    /\ resp.req.args.id \notin DOMAIN resp.req.local
    /\ DOMAIN resp.req.local # {}
    /\ ~resp.r.ok
    /\ locData = resp.req.local

(***************************************************************************)
(* Routes that NewRouter registers on the engine itself                    *)
(***************************************************************************)
\* c.JSON(statusCode, obj) with an object that is not a response.Response.
JSON(statusCode, obj) == [status |-> statusCode, body |-> obj]

\* buildinfo.Version, buildinfo.Commit, buildinfo.BuildTime
BuildVersion == "dev"
BuildCommit == "none"
BuildTime == "unknown"

\* GET /health
Health ==
    /\ resp' = Exchange("Health", NoData, JSON(200, [status |-> "ok"]))
    /\ UNCHANGED userVars
    /\ UNCHANGED locVars
    /\ UNCHANGED memVars

\* GET /version
Version ==
    /\ resp' = Exchange("Version", NoData,
                  JSON(200, [version |-> BuildVersion, commit_hash |-> BuildCommit,
                             build_time |-> BuildTime, status |-> "running"]))
    /\ UNCHANGED userVars
    /\ UNCHANGED locVars
    /\ UNCHANGED memVars

\* GET /api/ping
Ping ==
    /\ resp' = Exchange("Ping", NoData,
                  JSON(200, [status |-> "ok", version |-> BuildVersion]))
    /\ UNCHANGED userVars
    /\ UNCHANGED locVars
    /\ UNCHANGED memVars

\* Top-level keys of the JSON object a response carries: those of the
\* object handed to c.JSON, or those response.Response serialises to (data
\* and error are omitted when empty).
BodyKeys(r) ==
    IF "body" \in DOMAIN r
    THEN DOMAIN r.body
    ELSE {"success"}
            \cup (IF r.data # NoData THEN {"data"} ELSE {})
            \cup (IF r.code # "" THEN {"error"} ELSE {})

EnvelopeKeys == {"success", "data", "message", "error"}

\* C16 as stated: every response of every route carries the envelope
\* {success, data?, message?, error?}; success is true exactly when error is
\* absent, and false exactly when error carries a code.
C16_EveryResponseIsEnvelope ==
    resp.handler # "none" =>
       /\ "success" \in BodyKeys(resp.r)
       /\ BodyKeys(resp.r) \subseteq EnvelopeKeys
       /\ "body" \notin DOMAIN resp.r
       /\ resp.r.success <=> "error" \notin BodyKeys(resp.r)
       /\ ~resp.r.success <=> resp.r.code # ""

(***************************************************************************)
(* Field mapping of the other entities: what Create writes to the remote   *)
(* table and what the record mapper reads back                             *)
(***************************************************************************)
\* time.Now().Format(time.RFC3339)
Timestamp == Str("t" \o ToString(now))

\* JobType and JobCategory: {ID, Name, Slug}, written with two timestamps.
SluggedFieldsForCreate(e) ==
    ("Name" :> Str(e.Name)) @@ ("Slug" :> Str(e.Slug))
       @@ ("Created At" :> Timestamp) @@ ("Updated At" :> Timestamp)

JobTypeToAirtableFieldsForCreate(jt) == SluggedFieldsForCreate(jt)

JobTypeMapAirtableRecord(record) ==
    [ID |-> record.id,
     Name |-> getStringField(record.fields, "Name"),
     Slug |-> getStringField(record.fields, "Slug")]

JobCategoryToAirtableFieldsForCreate(jc) == SluggedFieldsForCreate(jc)

JobCategoryMapAirtableRecord(record) ==
    [ID |-> record.id,
     Name |-> getStringField(record.fields, "Name"),
     Slug |-> getStringField(record.fields, "Slug")]

\* The user as the remote table stores it: {ID, Email, Password, Role}.
StoredUser(id, email, password, role) ==
    [ID |-> id, Email |-> email, Password |-> password, Role |-> role]

FieldEmail == "Email"
FieldPassword == "Password"
FieldRole == "Role"

\* User.ToAirtableFieldsForCreate: the role is written only when not empty.
UserToAirtableFieldsForCreate(u) ==
    LET fields == (FieldEmail :> Str(u.Email)) @@ (FieldPassword :> Str(u.Password))
                     @@ ("CreatedAt" :> Timestamp) @@ ("UpdatedAt" :> Timestamp)
    IN  IF u.Role # "" THEN fields @@ (FieldRole :> Str(u.Role)) ELSE fields

\* Variant that reads the role as it is stored.
UserMapAirtableRecord_noDefault(record) ==
    StoredUser(record.id,
               getStringField(record.fields, FieldEmail),
               getStringField(record.fields, FieldPassword),
               getStringField(record.fields, FieldRole))

\* mapAirtableRecord of the user package: an empty role becomes RoleUser.
UserMapAirtableRecord(record) ==
    LET role == getStringField(record.fields, FieldRole)
    IN  StoredUser(record.id,
                   getStringField(record.fields, FieldEmail),
                   getStringField(record.fields, FieldPassword),
                   IF role = "" THEN RoleUser ELSE role)

\* Entities handed to Create.
SluggedEntities == [ID : {"", "7"}, Name : {"", "A b", "B"}, Slug : {"", "a-b", "b"}]

UserEntities ==
    [ID : {"", "7"}, Email : {"", "a@x"}, Password : {"", HashPassword("secret1")},
     Role : {""} \cup ValidRoles]

EntityTypes == {"Location", "JobType", "JobCategory", "User"}

\* Create writes ToAirtableFieldsForCreate(e) to the remote table, the
\* remote service assigns the id, and the record mapper reads the record
\* back.
MapEntity(type, e) ==
    /\ e \in (IF type = "User" THEN UserEntities ELSE SluggedEntities)
    /\ LET fields == CASE type = "Location" -> ToAirtableFieldsForCreate(e)
                        [] type = "JobType" -> JobTypeToAirtableFieldsForCreate(e)
                        [] type = "JobCategory" -> JobCategoryToAirtableFieldsForCreate(e)
                        [] type = "User" -> UserToAirtableFieldsForCreate(e)
           record == [id |-> RecordID(recSeq + 1), fields |-> fields]
       IN  resp' = Exchange("MapEntity",
                      [type |-> type, entity |-> e, record |-> record],
                      CASE type = "Location" -> mapAirtableRecord(record)
                        [] type = "JobType" -> JobTypeMapAirtableRecord(record)
                        [] type = "JobCategory" -> JobCategoryMapAirtableRecord(record)
                        [] type = "User" -> UserMapAirtableRecord(record))
    /\ UNCHANGED userVars
    /\ UNCHANGED locVars
    /\ UNCHANGED memVars

\* C17 as stated: for every entity of every type, mapping it to remote
\* fields and the resulting record back reproduces every attribute other
\* than id, also for a User whose role is empty.
C17_RoundTripReproducesAll ==
    resp.handler = "MapEntity" =>
       \A a \in DOMAIN resp.req.entity \ {"ID"} : resp.r[a] = resp.req.entity[a]

\* C17, amended: the round trip reproduces every attribute other than id
\* of a Location, JobType and JobCategory and of a User whose role is not
\* empty; a User whose role is empty comes back with the role "User" and
\* its other attributes unchanged.  The id is the one the remote assigned.
C17_RoundTripButEmptyRole ==
    resp.handler = "MapEntity" =>
       LET e == resp.req.entity
       IN  /\ DOMAIN resp.r = DOMAIN e
           /\ resp.r.ID = resp.req.record.id
           /\ \A a \in DOMAIN e \ {"ID", "Role"} : resp.r[a] = e[a]
           /\ resp.req.type = "User" =>
                 resp.r.Role = (IF e.Role = "" THEN "User" ELSE e.Role)

\* A User with an empty role went through the round trip and came back with
\* the role "User".
C17_Witness ==
    /\ resp.handler = "MapEntity"
    /\ resp.req.type = "User"
    /\ resp.req.entity.Role = ""
    /\ resp.req.entity.Email = "a@x"
    /\ "Role" \notin DOMAIN resp.req.record.fields
    /\ resp.r.Role = "User"
    /\ resp.r.Email = "a@x"

(***************************************************************************)
(* The mirroring user repository: the in-memory user store wrapped by      *)
(* AirtableRepository, as main constructs it                               *)
(***************************************************************************)
\* Variant that writes to the remote table before the local store is asked.
UserMirrorCreate_remoteFirst(user, createOk) ==
    LET local == UserCreate(user)
        table == IF createOk
                 THEN Append(airtableUsers,
                         [id |-> RecordID(recSeq + 1),
                          fields |-> UserToAirtableFieldsForCreate(user)])
                 ELSE airtableUsers
    IN  IF local.err # ""
        THEN [err |-> local.err, user |-> NoUser, data |-> users, nextID |-> nextID,
              table |-> table, calls |-> <<"CreateRecord">>]
        ELSE [err |-> "",
              user |-> IF createOk
                       THEN [local.user EXCEPT !.ID = RecordID(recSeq + 1)]
                       ELSE local.user,
              data |-> local.data, nextID |-> local.nextID,
              table |-> table, calls |-> <<"CreateRecord">>]

\* AirtableRepository.Create of the user package.  calls lists the remote
\* calls it issued.
UserMirrorCreate(user, createOk) ==
    LET local == UserCreate(user)
    IN  IF local.err # ""
        THEN [err |-> local.err, user |-> NoUser, data |-> users, nextID |-> nextID,
              table |-> airtableUsers, calls |-> <<>>]
        ELSE IF ~createOk
        THEN [err |-> "", user |-> local.user,
              data |-> local.data, nextID |-> local.nextID,
              table |-> airtableUsers, calls |-> <<"CreateRecord">>]
        ELSE [err |-> "",
              user |-> [local.user EXCEPT !.ID = RecordID(recSeq + 1)],
              data |-> local.data, nextID |-> local.nextID,
              table |-> Append(airtableUsers,
                           [id |-> RecordID(recSeq + 1),
                            fields |-> UserToAirtableFieldsForCreate(local.user)]),
              calls |-> <<"CreateRecord">>]

\* Remote DeleteRecord(table, id): an error when the call fails or the
\* table has no record with the id.
UsersWithout(id) ==
    SelectSeq2(airtableUsers, {airtableUsers[i].id : i \in 1..Len(airtableUsers)} \ {id})

\* AirtableRepository.Delete of the user package.
UserMirrorDelete(id, deleteOk) ==
    LET local == UserDelete(id)
    IN  IF ~local.ok
        THEN [ok |-> FALSE, data |-> users, table |-> airtableUsers, calls |-> <<>>]
        ELSE [ok |-> TRUE, data |-> local.data,
              table |-> IF deleteOk THEN UsersWithout(id) ELSE airtableUsers,
              calls |-> <<"DeleteRecord">>]

\* What an exchange records of a user repository call: both stores as the
\* call found them and the remote calls it issued.
UserRepoCall(args, calls) ==
    [args |-> args, local |-> users, nextID |-> nextID, remote |-> airtableUsers,
     calls |-> calls]

\* RegisterHandler from HashPassword on, over the mirroring repository:
\* repo.Create and the response.
RegisterHandlerSync(cl, createOk) ==
    /\ regReq[cl].pc = "create"
    /\ LET req == regReq[cl].body
           user == User("", req.Email, HashPassword(req.Password), RoleUser,
                        StatusPending, GenerateVerificationToken)
           res == UserMirrorCreate(user, createOk)
       IN  /\ res.err = "" => nextID <= MaxUsers
           /\ (res.err = "" /\ createOk) => recSeq < MaxRecords
           /\ users' = res.data
           /\ nextID' = res.nextID
           /\ airtableUsers' = res.table
           /\ recSeq' = IF res.err = "" /\ createOk THEN recSeq + 1 ELSE recSeq
           /\ resp' = Exchange("RegisterHandler",
                        UserRepoCall([body |-> req, createOk |-> createOk], res.calls)
                           @@ [body |-> req, existed |-> GetByEmail(req.Email).ok,
                               stage |-> "create"],
                        IF res.err # ""
                        THEN IF Contains(res.err, "already exists")
                             THEN DuplicateEmail
                             ELSE InternalError
                        ELSE Success(201, [res.user EXCEPT !.Password = "",
                                              !.EmailVerificationToken = ""]))
    /\ regReq' = [regReq EXCEPT ![cl] = Idle]
    /\ UNCHANGED <<issued, now>>
    /\ UNCHANGED <<airtableLoc, locReq>>
    /\ UNCHANGED <<repoKind, locData, locNextID, mu, locCall>>

\* Users handed to Create of the mirroring repository.
SyncUsers ==
    { User("", email, HashPassword("secret1"), RoleUser, StatusPending, "") :
         email \in {"a@x", "root@x"} }

\* Ids handed to Delete of the mirroring repository: ids of the in-memory
\* store, ids of the remote table and one that nobody has.
SyncIDParams ==
    {Itoa(n) : n \in 3..MaxUsers} \cup {RecordID(n) : n \in 1..MaxRecords} \cup {"9"}

\* AirtableRepository.Create of the user package, called directly.
UserRepositoryCreate(user, createOk) ==
    LET res == UserMirrorCreate(user, createOk)
    IN  /\ res.err = "" => nextID <= MaxUsers
        /\ (res.err = "" /\ createOk) => recSeq < MaxRecords
        /\ users' = res.data
        /\ nextID' = res.nextID
        /\ airtableUsers' = res.table
        /\ recSeq' = IF res.err = "" /\ createOk THEN recSeq + 1 ELSE recSeq
        /\ resp' = Exchange("UserRepository.Create",
                       UserRepoCall([user |-> user, createOk |-> createOk], res.calls),
                       [err |-> res.err, created |-> res.user])
        /\ UNCHANGED <<regReq, issued, now>>
        /\ UNCHANGED <<airtableLoc, locReq>>
        /\ UNCHANGED <<repoKind, locData, locNextID, mu, locCall>>

\* AirtableRepository.Delete of the user package, called directly.
UserRepositoryDelete(id, deleteOk) ==
    LET res == UserMirrorDelete(id, deleteOk)
    IN  /\ users' = res.data
        /\ airtableUsers' = res.table
        /\ resp' = Exchange("UserRepository.Delete",
                       UserRepoCall([id |-> id, deleteOk |-> deleteOk], res.calls),
                       [ok |-> res.ok])
        /\ UNCHANGED <<nextID, regReq, issued, now>>
        /\ UNCHANGED locVars
        /\ UNCHANGED <<repoKind, locData, locNextID, mu, locCall>>

\* The stores a rejected create has to leave alone.
UserStores == <<users, nextID, airtableUsers, recSeq>>

\* C23: a registration that fails validation or finds the email taken, at
\* the handler's check or inside the store's Create, and a repository Create
\* that the store refuses, issue no remote call and change neither the
\* in-memory user store, its counter nor the remote table.
C23_RejectedCreateIssuesNoRemoteCall ==
    /\ []((resp.handler = "RegisterHandler" /\ resp.req.stage = "create"
            /\ ~resp.r.success) =>
             /\ resp.req.calls = <<>>
             /\ users = resp.req.local
             /\ nextID = resp.req.nextID
             /\ airtableUsers = resp.req.remote)
    /\ []((resp.handler = "UserRepository.Create" /\ resp.r.err # "") =>
             /\ resp.req.calls = <<>>
             /\ users = resp.req.local
             /\ nextID = resp.req.nextID
             /\ airtableUsers = resp.req.remote)
    /\ [][(resp' # resp /\ resp'.handler = "RegisterHandler" /\ ~resp'.r.success) =>
             UNCHANGED UserStores]_vars
    /\ [][(resp' # resp /\ resp'.handler = "UserRepository.Create"
             /\ resp'.r.err # "") => UNCHANGED UserStores]_vars

\* Two registrations of one email passed the handler's check; the first
\* was stored and mirrored, the second was refused by the store's Create
\* with 409 before any remote call.
C23_Witness ==
    /\ resp.handler = "RegisterHandler"
    /\ resp.req.stage = "create"
    /\ resp.r = DuplicateEmail
    /\ resp.req.calls = <<>>
    /\ Len(airtableUsers) > 0
    /\ airtableUsers = resp.req.remote
    /\ users = resp.req.local

\* C29: the id returned by Create of the mirroring repository identifies
\* the created entity in that repository: after a Create that returned id X
\* with a nil error, whether the remote call succeeded or failed, the
\* entity is found under X and Delete(X) returns true and removes it from
\* the local store and from the remote table.
C29_CreatedIDIdentifiesEntity ==
    [][(/\ resp'.handler = "UserRepository.Create"
        /\ resp'.r.err = "")
       => \E X \in SyncIDParams :
             /\ X = resp'.r.created.ID
             /\ UserGet(X)'.ok
             /\ UserGet(X)'.user.Email = resp'.r.created.Email
             /\ UserMirrorDelete(X, TRUE)'.ok
             /\ X \notin DOMAIN UserMirrorDelete(X, TRUE)'.data
             /\ \A i \in 1..Len(UserMirrorDelete(X, TRUE)'.table) :
                   UserMirrorDelete(X, TRUE)'.table[i].id # X]_vars

(***************************************************************************)
(* Sessions: a signed-in administrator keeps using the token while the     *)
(* account it was issued for is updated or deleted.                        *)
(***************************************************************************)
\* Ids addressed by PUT and DELETE /users/:id in a session: the seeded
\* accounts, which are the ones that can sign in there.
SessionIDParams == {"1", "2"}

SessionUpdatePayloads ==
    { [Password |-> "", Role |-> RoleAdmin, Status |-> ""],
      [Password |-> "secret2", Role |-> RoleUser, Status |-> StatusDisabled] }

SessionLoginRequests ==
    [Email : {"root@x", "adm@x"}, Password : {"secret1"}]

\* C11: a token that was issued is accepted by AuthMiddleware at every time
\* before its expiresAt, whatever has happened to the user since (disabled,
\* role or password changed, deleted), and the role put into the context is
\* the role recorded in the token.
C11_OnlyExpiryInvalidates ==
    /\ \A t \in issued :
          now < ClaimsOf(t).ExpiresAt =>
             LET c == AuthMiddleware(JWTSecret, NewContext(BearerHeader(t)))
             IN  /\ ~c.aborted
                 /\ c.keys.set
                 /\ c.keys.user_id = ClaimsOf(t).UserID
                 /\ c.keys.user_role = ClaimsOf(t).Role
    /\ (resp.handler = "AuthMiddleware" /\ resp.req.secret = JWTSecret) =>
          \A t \in issued :
             (resp.req.hdr = BearerHeader(t) /\ resp.req.at < ClaimsOf(t).ExpiresAt) =>
                /\ resp.req.next
                /\ resp.req.keys.user_role = ClaimsOf(t).Role

\* The token of a Super Admin passed the middleware with the role Super
\* Admin after the account was disabled, demoted and given another password.
C11_Witness ==
    /\ resp.handler = "AuthMiddleware"
    /\ resp.req.next
    /\ \E t \in issued :
          /\ resp.req.hdr = BearerHeader(t)
          /\ resp.req.keys.user_role = RoleSuperAdmin
          /\ ClaimsOf(t).UserID \in DOMAIN users
          /\ LET u == users[ClaimsOf(t).UserID]
             IN  /\ u.Status = StatusDisabled
                 /\ u.Role # RoleSuperAdmin
                 /\ ~CheckPassword(u.Password, "secret1")

\* The token of an account passed the middleware after the account was
\* deleted.
C11_WitnessDeleted ==
    /\ resp.handler = "AuthMiddleware"
    /\ resp.req.next
    /\ \E t \in issued :
          /\ resp.req.hdr = BearerHeader(t)
          /\ ClaimsOf(t).UserID \notin DOMAIN users

(***************************************************************************)
(* Specifications                                                          *)
(***************************************************************************)
NoExchange == Exchange("none", NoData, Success(200, NoData))

InitLoc ==
    /\ airtableLoc = <<>>
    /\ recSeq = 0
    /\ locReq = [c \in Clients |-> Idle]

InitUser ==
    /\ users = NewInMemoryRepository(SeedUsers).data
    /\ nextID = NewInMemoryRepository(SeedUsers).nextID
    /\ regReq = [cl \in Clients |-> Idle]
    /\ issued = {}
    /\ now = 0

\* No location Repository has been constructed yet.
InitMem ==
    /\ repoKind = "none"
    /\ locData = NoLocations
    /\ locNextID = 1
    /\ mu = Unlocked
    /\ locCall = [c \in Clients |-> Idle]
    /\ airtableUsers = <<>>

Init ==
    /\ InitLoc
    /\ InitUser
    /\ InitMem
    /\ resp = NoExchange

\* The slugged-entity handlers.
NextLoc ==
    \/ \E c \in Clients, payload \in Payloads, listOk \in BOOLEAN :
          CreateLocationCheck(c, payload, listOk)
    \/ \E c \in Clients, createOk \in BOOLEAN : CreateLocationWrite(c, createOk)
    \/ \E slugParam \in SlugParams, listOk \in BOOLEAN, deleteOk \in BOOLEAN :
          DeleteLocationBySlug(slugParam, listOk, deleteOk)

Next == NextLoc

Spec == Init /\ [][Next]_vars

\* Accounts: registration, verification, login and user management, within
\* the lifetime of the tokens handed out.
NextUser ==
    \/ \E cl \in Clients, req \in RegisterRequests : RegisterHandlerCheck(cl, req)
    \/ \E cl \in Clients : RegisterHandlerCreate(cl)
    \/ \E token \in VerificationTokenParams : VerifyEmailHandler(token)
    \/ \E req \in LoginRequests : Login(req)
    \/ \E authHeader \in ClientHeaders : ListUsers(authHeader)
    \/ \E authHeader \in ClientHeaders, payload \in CreateUserPayloads :
          CreateUser(authHeader, payload)
    \/ \E authHeader \in ClientHeaders, id \in UserIDParams :
          DeleteUser(authHeader, id)
    \/ \E authHeader \in ClientHeaders, id \in UserIDParams,
          payload \in UpdateUserPayloads :
          UpdateUser(authHeader, id, payload)

SpecUser == Init /\ [][NextUser]_vars

\* Tokens over time: login, the passing of time, and the authentication
\* middleware of a deployment configured with either secret.
NextAuth ==
    \/ \E req \in LoginRequests : Login(req)
    \/ Tick
    \/ \E jwtSecret \in Secrets, authHeader \in AnyHeaders :
          ProtectedRequest(jwtSecret, authHeader)

SpecAuth == Init /\ [][NextAuth]_vars

\* Sessions over time: sign-in, the passing of time, user management on
\* the accounts that signed in, and requests carrying the tokens handed out.
NextSession ==
    \/ \E req \in SessionLoginRequests : Login(req)
    \/ Tick
    \/ \E authHeader \in ClientHeaders, id \in SessionIDParams :
          DeleteUser(authHeader, id)
    \/ \E authHeader \in ClientHeaders, id \in SessionIDParams,
          payload \in SessionUpdatePayloads :
          UpdateUser(authHeader, id, payload)
    \/ \E authHeader \in ClientHeaders : ProtectedRequest(JWTSecret, authHeader)

SpecSession == Init /\ [][NextSession]_vars

\* The location Repository on its own: construction of one of the variants,
\* its calls with either outcome of every remote call, and rows written into
\* the remote table by others.
NextRepo ==
    \/ \E kind \in RepoKinds, seed \in LocationSeeds : NewRepository(kind, seed)
    \/ \E listOk \in BOOLEAN : RepositoryList(listOk)
    \/ \E location \in RepoLocations, createOk \in BOOLEAN :
          RepositoryCreate(location, createOk)
    \/ \E slugValue \in RepoSlugs, listOk \in BOOLEAN, deleteOk \in BOOLEAN :
          RepositoryDeleteBySlug(slugValue, listOk, deleteOk)
    \/ \E id \in RepoIDParams, location \in RepoLocations : RepositoryUpdate(id, location)
    \/ \E id \in RepoIDParams : RepositoryDelete(id)
    \/ \E fields \in ForeignFields : ForeignRow(fields)

SpecRepo == Init /\ [][NextRepo]_vars

\* The routes of the engine as one client sees them: the public routes,
\* sign-in, the authentication and role middleware, and an entity route.
NextRouter ==
    \/ Health
    \/ Version
    \/ Ping
    \/ \E req \in LoginRequests : Login(req)
    \/ Tick
    \/ \E authHeader \in AnyHeaders : ProtectedRequest(JWTSecret, authHeader)
    \/ \E authHeader \in ClientHeaders : ListUsers(authHeader)
    \/ \E slugParam \in SlugParams, listOk \in BOOLEAN, deleteOk \in BOOLEAN :
          DeleteLocationBySlug(slugParam, listOk, deleteOk)

SpecRouter == Init /\ [][NextRouter]_vars

\* Field mapping on its own: entities of every type written and read back
\* at any time.
NextMapping ==
    \/ \E type \in EntityTypes, e \in SluggedEntities \cup UserEntities :
          MapEntity(type, e)
    \/ Tick

SpecMapping == Init /\ [][NextMapping]_vars

\* The in-memory stores called directly, without a remote table.
NextStore ==
    \/ NewRepository("memory", <<>>)
    \/ \E location \in RepoLocations : RepositoryCreate(location, TRUE)
    \/ \E id \in RepoIDParams, location \in RepoLocations : RepositoryUpdate(id, location)
    \/ \E id \in RepoIDParams : RepositoryDelete(id)
    \/ \E user \in StoreUsers : UserStoreCreate(user)
    \/ \E id \in UserIDParams : UserStoreDelete(id)

SpecStore == Init /\ [][NextStore]_vars

\* The mirroring repository under concurrent clients: the calls of two
\* clients step by step, the remote service answering or failing at its own
\* pace.
NextMirror ==
    \/ \E seed \in MirrorSeeds : NewRepository("mirror", seed)
    \/ \E c \in Clients, call \in LockedCalls : LocalLock(c, call)
    \/ \E c \in Clients : LocalUnlock(c)
    \/ \E c \in Clients : ListStart(c)
    \/ \E c \in Clients, ok \in BOOLEAN : RemoteReturn(c, ok)
    \/ \E c \in Clients : ListRLock(c)
    \/ \E c \in Clients : ListRUnlock(c)

SpecMirror == Init /\ [][NextMirror]_vars

\* Accounts over the mirroring user repository: registration in its two
\* steps and direct calls of the repository, each remote call succeeding or
\* failing.
NextUserSync ==
    \/ \E cl \in Clients, req \in RegisterRequests : RegisterHandlerCheck(cl, req)
    \/ \E cl \in Clients, createOk \in BOOLEAN : RegisterHandlerSync(cl, createOk)
    \/ \E user \in SyncUsers, createOk \in BOOLEAN : UserRepositoryCreate(user, createOk)
    \/ \E id \in SyncIDParams, deleteOk \in BOOLEAN : UserRepositoryDelete(id, deleteOk)

SpecUserSync == Init /\ [][NextUserSync]_vars

\* Bulk deletion: rows of one slug pile up in the remote table and are
\* deleted by slug.
NextBulk ==
    \/ \E kind \in {"remote", "mirror"} : NewRepository(kind, <<>>)
    \/ \E slugValue \in {"b"} : SlugRow(slugValue)
    \/ \E slugValue \in RepoSlugs, listOk \in BOOLEAN, deleteOk \in BOOLEAN :
          RepositoryDeleteBySlug(slugValue, listOk, deleteOk)

SpecBulk == Init /\ [][NextBulk]_vars

\* Password changes: sign-in with the current password and both password
\* routes, called by the seeded accounts.
NextPassword ==
    \/ \E req \in PasswordLoginRequests : Login(req)
    \/ \E authHeader \in ClientHeaders, payload \in ChangePasswordPayloads :
          ChangePassword(authHeader, payload)
    \/ \E authHeader \in ClientHeaders, id \in PasswordIDParams,
          payload \in ChangePasswordPayloads :
          ChangeUserPassword(authHeader, id, payload)

SpecPassword == Init /\ [][NextPassword]_vars

\* Where access tokens come from: registration by either handler file,
\* verification, sign-in, and the Super Admin changing account status.
NextToken ==
    \/ \E cl \in Clients, req \in RegisterRequests : RegisterHandlerCheck(cl, req)
    \/ \E cl \in Clients : RegisterHandlerCreate(cl)
    \/ \E req \in RegisterRequests : RegisterHandlerAutoLogin(req)
    \/ \E token \in VerificationTokenParams : VerifyEmailHandler(token)
    \/ \E req \in LoginRequests : Login(req)
    \/ \E req \in LoginRequests : LoginEarlier(req)
    \/ \E authHeader \in ClientHeaders, id \in UserIDParams,
          payload \in UpdateUserPayloads :
          UpdateUser(authHeader, id, payload)

SpecToken == Init /\ [][NextToken]_vars

\* What the answers of the user and auth handlers carry: every handler
\* that answers with user objects, over accounts that registered, were
\* verified or activated, and signed in.
ExposurePayloads == {[OldPassword |-> "secret1", NewPassword |-> "secret2"]}

NextExposure ==
    \/ \E cl \in Clients, req \in RegisterRequests : RegisterHandlerCheck(cl, req)
    \/ \E cl \in Clients : RegisterHandlerCreate(cl)
    \/ \E token \in VerificationTokenParams : VerifyEmailHandler(token)
    \/ \E req \in LoginRequests : Login(req)
    \/ \E authHeader \in ClientHeaders : ListUsers(authHeader)
    \/ \E authHeader \in ClientHeaders, payload \in CreateUserPayloads :
          CreateUser(authHeader, payload)
    \/ \E authHeader \in ClientHeaders, id \in UserIDParams,
          payload \in UpdateUserPayloads :
          UpdateUser(authHeader, id, payload)
    \/ \E authHeader \in ClientHeaders, payload \in ExposurePayloads :
          ChangePassword(authHeader, payload)
    \/ \E authHeader \in ClientHeaders, id \in UserIDParams,
          payload \in ExposurePayloads :
          ChangeUserPassword(authHeader, id, payload)

SpecExposure == Init /\ [][NextExposure]_vars

====
